---------------------------- MODULE Spec2Model ----------------------------
(***************************************************************************)
(* A model of the grouping engine (sqlparse/engine/grouping.py) and of the *)
(* reindent walker (sqlparse/filters/statement_sections_splitter.py,       *)
(* reindent.py) of sqlparse.                                               *)
(*                                                                         *)
(* The parse tree is kept as a heap: `store` is a sequence of nodes, a     *)
(* node is addressed by its position in the sequence, and a group node     *)
(* lists the addresses of its children.  A pass mutates the tree in place  *)
(* in the source; here it maps a store to a store.  Indices into child     *)
(* lists are the source's 0-based indices.                                 *)
(***************************************************************************)
EXTENDS Integers, Sequences, FiniteSets, TLC

VARIABLES store, pc, err, round, first, nodes0, walker, out, fault, tlist

vars == <<store, pc, err, round, first, nodes0, walker, out, fault, tlist>>

(***************************************************************************)
(* Bounds of the model.                                                    *)
(***************************************************************************)
MaxLen == 4
\* The longest statement of the runs in which a wrap of _group fails.
FaultLen == 5

(***************************************************************************)
(* Python values.                                                          *)
(***************************************************************************)
\* The index None (an integer that is no index of the model).
NoneIdx == 0 - 99
\* The token None (no node has address 0).
NoTok == 0
\* The root Statement of a tree.
Root == 1

Max(a, b) == IF a >= b THEN a ELSE b
Min(a, b) == IF a <= b THEN a ELSE b
Last(q) == q[Len(q)]
Front(q) == SubSeq(q, 1, Len(q) - 1)

(***************************************************************************)
(* Lexical types (sqlparse.tokens): a type is in a tag iff it is the tag   *)
(* or one of its descendants.                                              *)
(***************************************************************************)
TParent(tt) ==
    CASE tt = "Keyword.DML" -> "Keyword"
      [] tt = "Keyword.DDL" -> "Keyword"
      [] tt = "Keyword.CTE" -> "Keyword"
      [] tt = "Keyword.Order" -> "Keyword"
      [] tt = "Keyword.TZCast" -> "Keyword"
      [] tt = "Name.Builtin" -> "Name"
      [] tt = "Name.Placeholder" -> "Name"
      [] tt = "Number.Integer" -> "Number"
      [] tt = "Number.Float" -> "Number"
      [] tt = "String.Single" -> "String"
      [] tt = "String.Symbol" -> "String"
      [] tt = "Operator.Comparison" -> "Operator"
      [] tt = "Whitespace.Newline" -> "Whitespace"
      [] tt = "Comment.Single" -> "Comment"
      [] tt = "Comment.Multiline" -> "Comment"
      [] OTHER -> "Token"

\* ttype in tag (the containment test of a token type).
TypeIn(tt, tag) == tt # "None" /\ (tt = tag \/ TParent(tt) = tag)

\* value.upper() on the values of the model.
Upper(v) ==
    CASE v = "select" -> "SELECT"
      [] v = "from" -> "FROM"
      [] v = "as" -> "AS"
      [] v = "and" -> "AND"
      [] v = "between" -> "BETWEEN"
      [] OTHER -> v

(***************************************************************************)
(* Tokens and groups (sqlparse.sql).                                       *)
(***************************************************************************)
\* Token(ttype, value)
Leaf(tt, v) ==
    [cls |-> "Token", ttype |-> tt, value |-> v, tokens |-> <<>>,
     is_subQuery |-> FALSE, is_codeBlockDelimiter |-> FALSE,
     conditions_count |-> 0]

is_group(n) == n.cls # "Token"
is_keyword(n) == TypeIn(n.ttype, "Keyword")
is_whitespace(n) == TypeIn(n.ttype, "Whitespace")
normalized(n) == IF is_keyword(n) THEN Upper(n.value) ELSE n.value

\* The kinds that are Statements.
StatementKinds ==
    {"Statement", "StatementSelect", "StatementInsert", "StatementUnion"}

\* isinstance(token, kinds): kinds is a set of group kinds.
isinstance(n, kinds) ==
    \/ n.cls \in kinds
    \/ "Statement" \in kinds /\ n.cls \in StatementKinds

\* A matcher (ttype, values, regex); values = {} stands for None.
M(tt, vals) == [ttype |-> tt, values |-> vals]

\* Token.match(ttype, values)
match(n, m) ==
    /\ TypeIn(n.ttype, m.ttype)
    /\ (m.values = {} \/ normalized(n) \in m.values)

\* imt(token, i=kinds, m=matchers, t=types): any criterion.  ts are the
\* tags tested by containment, te the types a tuple lists (tested by
\* equality).
imt(n, i, ms, ts, te) ==
    \/ isinstance(n, i)
    \/ \E m \in ms : match(n, m)
    \/ \E t \in ts : TypeIn(n.ttype, t)
    \/ n.ttype \in te


(***************************************************************************)
(* Results of an operation on the tree: the store it leaves and the        *)
(* exception it raises ("none" when it returns).  A raised exception       *)
(* leaves the store as mutated so far.                                     *)
(***************************************************************************)
Ok(s) == [s |-> s, e |-> "none"]
Raise(s, e) == [s |-> s, e |-> e]
\* The store and the exception of a result that carries more.
Result(r) == [s |-> r.s, e |-> r.e]

\* tlist.tokens[i] for a 0-based index i in range.
At(s, g, i) == s[g].tokens[i + 1]
NTok(s, g) == Len(s[g].tokens)
InRange(s, g, i) == i >= 0 /\ i < NTok(s, g)

\* The least / greatest element of a set of indices, None when empty.
LeastIdx(S) == IF S = {} THEN NoneIdx ELSE CHOOSE i \in S : \A j \in S : i <= j
GreatestIdx(S) == IF S = {} THEN NoneIdx ELSE CHOOSE i \in S : \A j \in S : i >= j

\* The pair (idx, token) the searches return.
Found(s, g, i) ==
    IF i = NoneIdx THEN [i |-> NoneIdx, t |-> NoTok] ELSE [i |-> i, t |-> At(s, g, i)]

\* token is a comment: imt(tk, t=T.Comment, i=Comment)
is_comment(n) == n.cls = "Comment" \/ TypeIn(n.ttype, "Comment")

\* TokenList.token_next(idx, skip_ws, skip_cm, reverse): the nearest child
\* after (before, when reverse) idx that is not skipped.
token_next(s, g, idx, skip_ws, skip_cm, reverse) ==
    IF idx = NoneIdx THEN Found(s, g, NoneIdx)
    ELSE LET keep(i) == ~(\/ skip_ws /\ is_whitespace(s[At(s, g, i)])
                          \/ skip_cm /\ is_comment(s[At(s, g, i)]))
         IN IF reverse
            THEN Found(s, g, GreatestIdx({i \in 0..(Min(idx, NTok(s, g)) - 1) : keep(i)}))
            ELSE Found(s, g, LeastIdx({i \in Max(idx + 1, 0)..(NTok(s, g) - 1) : keep(i)}))

\* TokenList.token_prev(idx, skip_ws, skip_cm)
token_prev(s, g, idx, skip_ws, skip_cm) == token_next(s, g, idx, skip_ws, skip_cm, TRUE)

\* token_next(idx) and token_prev(idx) with their default arguments.
token_next_d(s, g, idx) == token_next(s, g, idx, TRUE, TRUE, FALSE)
token_prev_d(s, g, idx) == token_prev(s, g, idx, TRUE, FALSE)

\* TokenList.token_next_by(i, m, t, idx, reverse): the nearest child after
\* (before) idx that satisfies imt.
token_next_by(s, g, i, ms, ts, te, idx, reverse) ==
    LET hit(k) == imt(s[At(s, g, k)], i, ms, ts, te)
    IN IF reverse
       THEN Found(s, g, GreatestIdx({k \in 0..(Min(idx, NTok(s, g)) - 1) : hit(k)}))
       ELSE Found(s, g, LeastIdx({k \in Max(idx + 1, 0)..(NTok(s, g) - 1) : hit(k)}))

\* TokenList.token_index(token): the position of a child, ValueError (None
\* here) when it is no child.
token_index(s, g, t) ==
    LeastIdx({k \in 0..(NTok(s, g) - 1) : At(s, g, k) = t})

\* A new, empty group of a kind with its class attributes.  index_lost is
\* no attribute of the group: it records that a scan of _group over its
\* children has computed an index tidx that was negative or was not the
\* position of the token of the snapshot.
NewGroup(cls, ch) ==
    [cls |-> cls, ttype |-> "None", value |-> "", tokens |-> ch,
     is_subQuery |-> FALSE, is_codeBlockDelimiter |-> FALSE,
     conditions_count |-> IF cls = "ConditionsList" THEN 1 ELSE 0,
     index_lost |-> FALSE]

\* The bounds of the slice tokens[a:b] of a list of n elements.
SliceLo(a, n) == IF a < 0 THEN Max(a + n, 0) ELSE Min(a, n)
SliceHi(a, b, n) == Max(SliceLo(a, n), SliceLo(b, n))

\* TokenList.group_tokens(grp_cls, start, end, extend): replaces the
\* children start..end by one group holding them, or appends the children
\* start+1..end to the child at start when extend and that child is of the
\* kind already.  Returns the store and the group (grp = NoTok on a raise).
group_tokens(s, g, cls, start, end, extend) ==
    IF start = NoneIdx \/ end = NoneIdx THEN [s |-> s, e |-> "TypeError", grp |-> NoTok]
    ELSE IF start >= NTok(s, g) \/ start < 0 - NTok(s, g)
    THEN [s |-> s, e |-> "IndexError", grp |-> NoTok]
    ELSE LET n == NTok(s, g)
             ch == s[g].tokens
             st == IF start < 0 THEN start + n ELSE start
             first_tok == ch[st + 1]
         IN IF extend /\ isinstance(s[first_tok], {cls})
            THEN LET lo == SliceLo(start + 1, n)
                     hi == SliceHi(start + 1, end + 1, n)
                     sub == SubSeq(ch, lo + 1, hi)
                 IN [s |-> [s EXCEPT ![first_tok].tokens = @ \o sub,
                                     ![g].tokens = SubSeq(ch, 1, lo) \o SubSeq(ch, hi + 1, n)],
                     e |-> "none", grp |-> first_tok]
            ELSE LET lo == SliceLo(start, n)
                     hi == SliceHi(start, end + 1, n)
                     sub == SubSeq(ch, lo + 1, hi)
                     grp == Len(s) + 1
                 IN [s |-> Append([s EXCEPT ![g].tokens =
                                       SubSeq(ch, 1, lo) \o <<grp>> \o SubSeq(ch, hi + 1, n)],
                                  NewGroup(cls, sub)),
                     e |-> "none", grp |-> grp]

\* TokenList.flatten(): the leaves below a node, in order.
RECURSIVE flatten(_, _)
flatten(s, t) ==
    IF ~is_group(s[t]) THEN <<t>>
    ELSE LET RECURSIVE cat(_)
             cat(k) == IF k > Len(s[t].tokens) THEN <<>>
                       ELSE flatten(s, s[t].tokens[k]) \o cat(k + 1)
         IN cat(1)

\* TokenList.get_sublists(): the children that are groups.
get_sublists(s, g) == SelectSeq(s[g].tokens, LAMBDA t : is_group(s[t]))

(***************************************************************************)
(* Matcher constants of the group kinds (class attributes of sqlparse.sql).*)
(***************************************************************************)
M_OPEN(cls) ==
    CASE cls = "Parenthesis" -> M("Punctuation", {"("})
      [] cls = "SquareBrackets" -> M("Punctuation", {"["})
      [] cls = "Case" -> M("Keyword", {"CASE"})
      [] cls = "If" -> M("Keyword", {"IF"})
      [] cls = "For" -> M("Keyword", {"FOR"})
      [] cls = "Begin" -> M("Keyword", {"BEGIN"})
      [] cls = "ClauseWhere" -> M("Keyword", {"WHERE"})
      [] cls = "ClauseFrom" -> M("Keyword", {"FROM"})
      [] cls = "SelectProjection" -> M("Keyword.DML", {"SELECT"})
      [] cls = "ClauseWith" -> M("Keyword.CTE", {"WITH"})
      [] cls = "ClauseInsert" -> M("Keyword.DML", {"INSERT"})
      [] cls = "ClausePartitionBy" -> M("Keyword", {"PARTITION BY"})
      [] cls = "ClauseOrderBy" -> M("Keyword", {"ORDER BY"})
      [] cls = "ClauseGroupBy" -> M("Keyword", {"GROUP BY"})
      [] cls = "WindowFunction" -> M("Keyword", {"OVER", "FILTER"})

M_CLOSE(cls) ==
    CASE cls = "Parenthesis" -> M("Punctuation", {")"})
      [] cls = "SquareBrackets" -> M("Punctuation", {"]"})
      [] cls = "Case" -> M("Keyword", {"END"})
      [] cls = "If" -> M("Keyword", {"END IF"})
      [] cls = "For" -> M("Keyword", {"END FOR"})
      [] cls = "Begin" -> M("Keyword", {"END"})

(***************************************************************************)
(* _group_matching(tlist, cls): groups tokens that have a beginning and an *)
(* end.  The loop runs over a snapshot of the children; opens is the stack *)
(* of the indices of the unmatched opens, off is tidx_offset.              *)
(***************************************************************************)
\* opens.pop(): the index popped, the last pushed, and the stack it leaves.
opens_pop_first(opens) == [idx |-> Head(opens), rest |-> Tail(opens)]
opens_pop(opens) == [idx |-> Last(opens), rest |-> Front(opens)]

RECURSIVE _group_matching(_, _, _)
RECURSIVE _group_matching_loop(_, _, _, _, _, _, _)
_group_matching_loop(r, g, cls, snap, idx, opens, off) ==
    IF r.e # "none" \/ idx >= Len(snap) THEN r
    ELSE LET s == r.s
             token == snap[idx + 1]
             tidx == idx - off
         IN IF is_whitespace(s[token])
            THEN _group_matching_loop(r, g, cls, snap, idx + 1, opens, off)
            ELSE IF is_group(s[token]) /\ ~isinstance(s[token], {cls})
            THEN _group_matching_loop(_group_matching(s, token, cls), g, cls, snap,
                                      idx + 1, opens, off)
            ELSE IF match(s[token], M_OPEN(cls))
            THEN _group_matching_loop(r, g, cls, snap, idx + 1, Append(opens, tidx), off)
            ELSE IF match(s[token], M_CLOSE(cls))
            THEN IF opens = <<>>
                 THEN _group_matching_loop(r, g, cls, snap, idx + 1, opens, off)
                 ELSE _group_matching_loop(
                          Result(group_tokens(s, g, cls, opens_pop(opens).idx, tidx, FALSE)),
                          g, cls, snap, idx + 1, opens_pop(opens).rest,
                          off + (tidx - opens_pop(opens).idx))
            ELSE _group_matching_loop(r, g, cls, snap, idx + 1, opens, off)

_group_matching(s, g, cls) == _group_matching_loop(Ok(s), g, cls, s[g].tokens, 0, <<>>, 0)

group_brackets(s, g) == _group_matching(s, g, "SquareBrackets")

(***************************************************************************)
(* group_parenthesis(tlist): as _group_matching for Parenthesis, recording *)
(* for every open whether a THEN/AS keyword precedes it (is_blocks) and    *)
(* whether a SELECT follows it (is_subqry); a close without an open raises.*)
(* The three stacks are pushed and popped together: opens holds records.   *)
(***************************************************************************)
m_block_discriminant == M("Keyword", {"THEN", "AS"})
m_subqry_discriminant == M("Keyword.DML", {"SELECT"})

\* A close met with no open on the stack: opens.pop() raises IndexError,
\* which is turned into the SQLParseError.
group_parenthesis_unmatched_continue(s) == Ok(s)
group_parenthesis_unmatched(s) == Raise(s, "SQLParseError:UnbalancedParenthesis")

\* tbdis (tsbdis) is a token and matches the discriminant.
group_parenthesis_discriminant(s, t, m) == t # NoTok /\ match(s[t], m)

\* The group made of a matched pair with each flag set from the record of
\* the other.
group_parenthesis_close_exchanged(r, top) ==
    IF r.e = "IndexError" THEN Raise(r.s, "SQLParseError:UnbalancedParenthesis")
    ELSE IF r.e # "none" THEN Raise(r.s, r.e)
    ELSE Ok([r.s EXCEPT ![r.grp].is_codeBlockDelimiter = IF top.is_subqry THEN TRUE ELSE @,
                        ![r.grp].is_subQuery = IF top.is_block THEN TRUE ELSE @])

\* The group made of a matched pair, r what group_tokens returned and top
\* the popped record of its open: the flags are set on the new group; an
\* IndexError is turned into the SQLParseError.
group_parenthesis_close(r, top) ==
    IF r.e = "IndexError" THEN Raise(r.s, "SQLParseError:UnbalancedParenthesis")
    ELSE IF r.e # "none" THEN Raise(r.s, r.e)
    ELSE Ok([r.s EXCEPT ![r.grp].is_codeBlockDelimiter = IF top.is_block THEN TRUE ELSE @,
                        ![r.grp].is_subQuery = IF top.is_subqry THEN TRUE ELSE @])

RECURSIVE group_parenthesis(_, _)
RECURSIVE group_parenthesis_loop(_, _, _, _, _, _)
group_parenthesis_loop(r, g, snap, idx, opens, off) ==
    IF r.e # "none" \/ idx >= Len(snap) THEN r
    ELSE LET s == r.s
             token == snap[idx + 1]
             tidx == idx - off
         IN IF is_whitespace(s[token])
            THEN group_parenthesis_loop(r, g, snap, idx + 1, opens, off)
            ELSE IF is_group(s[token]) /\ ~isinstance(s[token], {"Parenthesis"})
            THEN group_parenthesis_loop(group_parenthesis(s, token), g, snap,
                                        idx + 1, opens, off)
            ELSE IF match(s[token], M_OPEN("Parenthesis"))
            THEN group_parenthesis_loop(r, g, snap, idx + 1,
                     Append(opens,
                            [open |-> tidx,
                             is_block |-> group_parenthesis_discriminant(
                                              s, token_prev_d(s, g, tidx).t,
                                              m_block_discriminant),
                             is_subqry |-> group_parenthesis_discriminant(
                                               s, token_next_d(s, g, tidx).t,
                                               m_subqry_discriminant)]),
                     off)
            ELSE IF match(s[token], M_CLOSE("Parenthesis"))
            THEN IF opens = <<>>
                 THEN group_parenthesis_loop(group_parenthesis_unmatched(s), g, snap,
                                             idx + 1, opens, off)
                 ELSE group_parenthesis_loop(
                          group_parenthesis_close(
                              group_tokens(s, g, "Parenthesis", Last(opens).open, tidx, FALSE),
                              Last(opens)),
                          g, snap, idx + 1, Front(opens), off + (tidx - Last(opens).open))
            ELSE group_parenthesis_loop(r, g, snap, idx + 1, opens, off)

group_parenthesis(s, g) == group_parenthesis_loop(Ok(s), g, s[g].tokens, 0, <<>>, 0)

group_case(s, g) == _group_matching(s, g, "Case")
group_if(s, g) == _group_matching(s, g, "If")
group_for(s, g) == _group_matching(s, g, "For")
group_begin(s, g) == _group_matching(s, g, "Begin")

(***************************************************************************)
(* The recognizers driven by _group: for each, the middle-token matcher,   *)
(* the validators of its two neighbours and the span its post returns.     *)
(* A validator gets the node of the neighbour, or NoTok for None.          *)
(***************************************************************************)
T_NUMERICAL == {"Number", "Number.Integer", "Number.Float"}
T_STRING == {"String", "String.Single", "String.Symbol"}
T_NAME == {"Name", "Name.Placeholder"}

\* The span a post returns, with the store it leaves.
Span(s, from_idx, to_idx) == [s |-> s, from |-> from_idx, to |-> to_idx]

\* token is not None
valid_not_none(s, t) == t # NoTok

group_typecasts_match(n) == match(n, M("Punctuation", {"::"}))

group_tzcasts_match(n) == n.ttype = "Keyword.TZCast"

TypedLiteral_M_OPEN == {M("Name.Builtin", {}), M("Keyword", {"TIMESTAMP"})}
TypedLiteral_M_CLOSE == M("String.Single", {})
TypedLiteral_M_EXTEND ==
    M("Keyword", {"DAY", "HOUR", "MINUTE", "MONTH", "SECOND", "YEAR"})

group_typed_literal_match(n) == imt(n, {}, TypedLiteral_M_OPEN, {}, {})
group_typed_literal_match_to_extend(n) == isinstance(n, {"TypedLiteral"})
group_typed_literal_valid_next(s, t) == t # NoTok /\ match(s[t], TypedLiteral_M_CLOSE)
group_typed_literal_valid_final(s, t) == t # NoTok /\ match(s[t], TypedLiteral_M_EXTEND)

group_period_match(n) == match(n, M("Punctuation", {"."}))
group_period_valid(s, t) ==
    t # NoTok /\ imt(s[t], {"SquareBrackets", "Identifier"}, {}, {},
                     {"Name", "String.Symbol", "Name.Placeholder"})

group_as_match(n) == is_keyword(n) /\ normalized(n) = "AS"
\* valid_next without the test of the Parenthesis.
group_as_valid_next_parenthesis(s, t) ==
    /\ t # NoTok
    /\ ~imt(s[t], {}, {}, {}, {"Keyword.DML", "Keyword.DDL", "Keyword.CTE"})
group_as_valid_prev(s, t) ==
    \/ normalized(s[t]) = "NULL"
    \/ ~is_keyword(s[t])
    \/ (isinstance(s[t], {"Parenthesis"}) /\ ~s[t].is_subQuery)
group_as_valid_next(s, t) ==
    /\ t # NoTok
    /\ ~imt(s[t], {}, {}, {}, {"Keyword.DML", "Keyword.DDL", "Keyword.CTE"})
    /\ (~isinstance(s[t], {"Parenthesis"}) \/ ~s[t].is_subQuery)

group_assignment_match(n) == match(n, M("Assignment", {":="}))
group_assignment_valid(s, t) == t # NoTok /\ ~TypeIn(s[t].ttype, "Keyword")
group_assignment_post(s, g, pidx, tidx, nidx) ==
    LET snidx == token_next_by(s, g, {}, {M("Punctuation", {";"})}, {}, {}, nidx, FALSE).i
    IN Span(s, pidx, IF snidx # NoneIdx /\ snidx # 0 THEN snidx ELSE nidx)

group_comparison_match(n) == n.ttype = "Operator.Comparison"
group_comparison_valid(s, t) ==
    /\ t # NoTok
    /\ \/ imt(s[t], {"Parenthesis", "Function", "Identifier", "Operation", "TypedLiteral"},
              {}, {}, T_NUMERICAL \cup T_STRING \cup T_NAME \cup {"Name.Builtin"})
       \/ is_keyword(s[t]) /\ normalized(s[t]) = "NULL"

group_conditions_list_sqlcls == {"Comparison", "Parenthesis", "ConditionsList", "Identifier"}
group_conditions_list_match(n) == match(n, M("Keyword", {"AND", "OR"}))
group_conditions_list_valid(s, t) ==
    t # NoTok /\ imt(s[t], group_conditions_list_sqlcls \cup {"Comment"},
                     {M("Keyword", {"NOT"})}, {}, {})
group_conditions_list_post(s, g, pidx, tidx, nidx) ==
    LET p0 == At(s, g, pidx)
        n0 == At(s, g, nidx)
        pf == IF isinstance(s[p0], {"Comment"})
              THEN token_next_by(s, g, group_conditions_list_sqlcls, {}, {}, {}, pidx, TRUE)
              ELSE [i |-> pidx, t |-> p0]
        nf == IF isinstance(s[n0], {"Comment"}) \/ imt(s[n0], {}, {M("Keyword", {"NOT"})}, {}, {})
              THEN token_next_by(s, g, group_conditions_list_sqlcls, {}, {}, {}, nidx, FALSE)
              ELSE [i |-> nidx, t |-> n0]
        increment == IF nf.t # NoTok /\ isinstance(s[nf.t], {"Parenthesis"}) THEN 2 ELSE 1
    IN IF pf.t # NoTok /\ isinstance(s[pf.t], {"ConditionsList"})
       THEN Span([s EXCEPT ![pf.t].conditions_count = @ + increment], pf.i, nf.i)
       ELSE Span(s, pf.i, nf.i)

group_arrays_match(n) == isinstance(n, {"SquareBrackets"})
group_arrays_valid_prev(s, t) ==
    imt(s[t], {"SquareBrackets", "Identifier", "Function"}, {}, {}, {"Name", "String.Symbol"})

group_operator_match(n) == imt(n, {}, {}, {}, {"Operator", "Wildcard"})
group_operator_valid(s, t) ==
    /\ t # NoTok
    /\ \/ imt(s[t], {"SquareBrackets", "Parenthesis", "Function", "Identifier",
                     "Operation", "TypedLiteral"},
              {}, {}, T_NUMERICAL \cup T_STRING \cup T_NAME)
       \/ match(s[t], M("Keyword", {"CURRENT_DATE", "CURRENT_TIME", "CURRENT_TIMESTAMP"}))
group_operator_post_value(s, g, pidx, tidx, nidx) ==
    LET s1 == [s EXCEPT ![At(s, g, tidx)].value = "Operator"]
        sign == token_next(s1, g, pidx, TRUE, FALSE, TRUE)
    IN IF sign.t # NoTok /\ match(s1[sign.t], M("Operator", {"-", "+"}))
       THEN Span(s1, sign.i, nidx)
       ELSE Span(s1, pidx, nidx)
group_operator_post(s, g, pidx, tidx, nidx) ==
    LET s1 == [s EXCEPT ![At(s, g, tidx)].ttype = "Operator"]
        sign == token_next(s1, g, pidx, TRUE, FALSE, TRUE)
    IN IF sign.t # NoTok /\ match(s1[sign.t], M("Operator", {"-", "+"}))
       THEN Span(s1, sign.i, nidx)
       ELSE Span(s1, pidx, nidx)

group_identifier_list_sqlcls ==
    {"Function", "WindowFunction", "Case", "Identifier", "Comparison",
     "IdentifierList", "Operation", "Comment", "SubQuery"}
group_identifier_list_m_role == {M("Keyword", {"NULL", "ROLE"}), M("Punctuation", {","})}
group_identifier_list_ttypes ==
    T_NUMERICAL \cup T_STRING \cup T_NAME \cup {"Keyword", "Wildcard"}
group_identifier_list_match(n) == match(n, M("Punctuation", {","}))
group_identifier_list_valid(s, t) ==
    t # NoTok /\ imt(s[t], group_identifier_list_sqlcls, group_identifier_list_m_role,
                     {}, group_identifier_list_ttypes)
group_identifier_list_post(s, g, pidx, tidx, nidx) ==
    LET from_idx == IF isinstance(s[At(s, g, pidx)], {"Comment"})
                    THEN token_next_by(s, g, group_identifier_list_sqlcls,
                                       group_identifier_list_m_role, {},
                                       group_identifier_list_ttypes, pidx, TRUE).i
                    ELSE pidx
        to_idx == IF isinstance(s[At(s, g, nidx)], {"Comment"})
                  THEN token_next_by(s, g, group_identifier_list_sqlcls,
                                     group_identifier_list_m_role, {},
                                     group_identifier_list_ttypes, nidx, FALSE).i
                  ELSE nidx
    IN Span(s, from_idx, to_idx)

group_statement_union_sqlcls == {"StatementSelect", "StatementUnion", "Comment"}
\* The keywords of the model in which the regex UNION or UNION ALL is found.
group_statement_union_match(n) == match(n, M("Keyword", {"UNION", "UNION ALL"}))
group_statement_union_valid(s, t) ==
    t # NoTok /\ imt(s[t], group_statement_union_sqlcls, {}, {}, {})
group_statement_union_post(s, g, pidx, tidx, nidx) ==
    LET from_idx == IF isinstance(s[At(s, g, pidx)], {"Comment"})
                    THEN token_next_by(s, g, group_statement_union_sqlcls, {}, {}, {},
                                       pidx, TRUE).i
                    ELSE pidx
        to_idx == IF isinstance(s[At(s, g, nidx)], {"Comment"})
                  THEN token_next_by(s, g, group_statement_union_sqlcls, {}, {}, {},
                                     nidx, FALSE).i
                  ELSE nidx
    IN Span(s, from_idx, to_idx)

group_window_function_match(n) == match(n, M_OPEN("WindowFunction"))
group_window_function_valid_prev(s, t) ==
    imt(s[t], {"Function", "WindowFunction"}, {}, {}, {})
group_window_function_valid_next(s, t) ==
    t # NoTok /\ imt(s[t], {"Parenthesis"}, {}, {}, {})
group_window_function_post(s, g, pidx, tidx, nidx) ==
    LET token == At(s, g, tidx)
        over == token_next_by(s, g, {}, {M("Keyword", {"OVER", "FROM"}),
                                         M("Punctuation", {","})}, {}, {}, nidx, FALSE)
    IN IF match(s[token], M("Keyword", {"FILTER"}))
          /\ over.t # NoTok /\ match(s[over.t], M("Keyword", {"OVER"}))
       THEN Span(s, pidx, token_next_by(s, g, {"Parenthesis"}, {}, {}, {}, over.i, FALSE).i)
       ELSE Span(s, pidx, nidx)

(***************************************************************************)
(* The arguments each recognizer passes to _group, by recognizer p.        *)
(***************************************************************************)
\* cls
_group_cls(p) ==
    CASE p \in {"typecasts", "tzcasts", "period", "as", "arrays"} -> "Identifier"
      [] p \in {"typed_literal", "typed_literal_extend"} -> "TypedLiteral"
      [] p = "assignment" -> "Assignment"
      [] p = "comparison" -> "Comparison"
      [] p = "conditions_list" -> "ConditionsList"
      [] p = "operator" -> "Operation"
      [] p = "identifier_list" -> "IdentifierList"
      [] p = "statement_union" -> "StatementUnion"
      [] p = "window_function" -> "WindowFunction"

\* extend
_group_extend(p) == p \notin {"typed_literal", "comparison", "operator"}

\* recurse
_group_recurse(p) == p # "arrays"

\* match(token)
_group_match(p, n) ==
    CASE p = "typecasts" -> group_typecasts_match(n)
      [] p = "tzcasts" -> group_tzcasts_match(n)
      [] p = "typed_literal" -> group_typed_literal_match(n)
      [] p = "typed_literal_extend" -> group_typed_literal_match_to_extend(n)
      [] p = "period" -> group_period_match(n)
      [] p = "as" -> group_as_match(n)
      [] p = "assignment" -> group_assignment_match(n)
      [] p = "comparison" -> group_comparison_match(n)
      [] p = "conditions_list" -> group_conditions_list_match(n)
      [] p = "arrays" -> group_arrays_match(n)
      [] p = "operator" -> group_operator_match(n)
      [] p = "identifier_list" -> group_identifier_list_match(n)
      [] p = "statement_union" -> group_statement_union_match(n)
      [] p = "window_function" -> group_window_function_match(n)

\* valid_prev(prev_), prev_ not None
_group_valid_prev(p, s, t) ==
    CASE p \in {"typecasts", "tzcasts", "typed_literal", "typed_literal_extend"} ->
             valid_not_none(s, t)
      [] p = "period" -> group_period_valid(s, t)
      [] p = "as" -> group_as_valid_prev(s, t)
      [] p = "assignment" -> group_assignment_valid(s, t)
      [] p = "comparison" -> group_comparison_valid(s, t)
      [] p = "conditions_list" -> group_conditions_list_valid(s, t)
      [] p = "arrays" -> group_arrays_valid_prev(s, t)
      [] p = "operator" -> group_operator_valid(s, t)
      [] p = "identifier_list" -> group_identifier_list_valid(s, t)
      [] p = "statement_union" -> group_statement_union_valid(s, t)
      [] p = "window_function" -> group_window_function_valid_prev(s, t)

\* valid_next(next_), next_ possibly None
_group_valid_next(p, s, t) ==
    CASE p \in {"typecasts", "tzcasts"} -> valid_not_none(s, t)
      [] p = "typed_literal" -> group_typed_literal_valid_next(s, t)
      [] p = "typed_literal_extend" -> group_typed_literal_valid_final(s, t)
      [] p = "period" -> group_period_valid(s, t)
      [] p = "as" -> group_as_valid_next(s, t)
      [] p = "assignment" -> group_assignment_valid(s, t)
      [] p = "comparison" -> group_comparison_valid(s, t)
      [] p = "conditions_list" -> group_conditions_list_valid(s, t)
      [] p = "arrays" -> TRUE
      [] p = "operator" -> group_operator_valid(s, t)
      [] p = "identifier_list" -> group_identifier_list_valid(s, t)
      [] p = "statement_union" -> group_statement_union_valid(s, t)
      [] p = "window_function" -> group_window_function_valid_next(s, t)

\* post(tlist, pidx, tidx, nidx)
_group_post(p, s, g, pidx, tidx, nidx) ==
    CASE p \in {"typecasts", "tzcasts", "period", "as", "comparison"} -> Span(s, pidx, nidx)
      [] p \in {"typed_literal", "typed_literal_extend"} -> Span(s, tidx, nidx)
      [] p = "assignment" -> group_assignment_post(s, g, pidx, tidx, nidx)
      [] p = "conditions_list" -> group_conditions_list_post(s, g, pidx, tidx, nidx)
      [] p = "arrays" -> Span(s, pidx, tidx)
      [] p = "operator" -> group_operator_post(s, g, pidx, tidx, nidx)
      [] p = "identifier_list" -> group_identifier_list_post(s, g, pidx, tidx, nidx)
      [] p = "statement_union" -> group_statement_union_post(s, g, pidx, tidx, nidx)
      [] p = "window_function" -> group_window_function_post(s, g, pidx, tidx, nidx)

\* "if from_idx": an index that is neither None nor 0.
Truthy(i) == i # NoneIdx /\ i # 0

(***************************************************************************)
(* _group(tlist, cls, match, valid_prev, valid_next, post, extend,         *)
(* recurse): groups tokens joined by a middle token.  The loop runs over a *)
(* snapshot of the children; off is tidx_offset, (pidx, prev) the last     *)
(* token kept as the left neighbour.                                       *)
(***************************************************************************)
RECURSIVE _group(_, _, _, _)
RECURSIVE _group_loop(_, _, _, _, _, _, _, _)
RECURSIVE _group_span(_, _, _, _, _, _)

\* The wrap of a matched span: what group_tokens returns.  _group catches
\* an exception raised by it, and by consume() for a negative count.
_group_wrap(s, g, p, from_idx, to_idx) ==
    group_tokens(s, g, _group_cls(p), from_idx, to_idx, _group_extend(p))

\* for indx in range(tidx+1, to_idx+1): recurse into the groups of the span.
_group_span(r, g, p, recurse, indx, to_idx) ==
    IF r.e # "none" \/ indx > to_idx THEN r
    ELSE IF ~recurse THEN _group_span(r, g, p, recurse, indx + 1, to_idx)
    ELSE IF ~InRange(r.s, g, indx) THEN Raise(r.s, "IndexError")
    ELSE IF /\ is_group(r.s[At(r.s, g, indx)])
            /\ ~isinstance(r.s[At(r.s, g, indx)], {_group_cls(p)})
    THEN _group_span(_group(r.s, At(r.s, g, indx), p, TRUE), g, p, recurse, indx + 1, to_idx)
    ELSE _group_span(r, g, p, recurse, indx + 1, to_idx)

\* The end of an iteration on a matched token with the offset advanced by
\* to_idx - tidx, the tokens consumed, rather than to_idx - from_idx.
_group_consume_from_tidx(w, sp, g, p, recurse, snap, idx, off, keep) ==
    IF w.e # "none"
    THEN _group_loop(Ok(w.s), g, p, recurse, snap, idx + 1, off, keep)
    ELSE IF sp.to - (idx - off) < 0
    THEN _group_loop(Ok(w.s), g, p, recurse, snap, idx + 1, off + (sp.to - (idx - off)), keep)
    ELSE _group_loop(Ok(w.s), g, p, recurse, snap, idx + 1 + (sp.to - (idx - off)),
                     off + (sp.to - (idx - off)), [pidx |-> sp.from, t |-> w.grp])

\* The end of an iteration on a matched token with the offset advanced
\* whether the wrap returned or raised.
_group_consume_advanced(w, sp, g, p, recurse, snap, idx, off, keep) ==
    IF w.e # "none"
    THEN _group_loop(Ok(w.s), g, p, recurse, snap, idx + 1, off + (sp.to - sp.from), keep)
    ELSE IF sp.to - (idx - off) < 0
    THEN _group_loop(Ok(w.s), g, p, recurse, snap, idx + 1, off + (sp.to - sp.from), keep)
    ELSE _group_loop(Ok(w.s), g, p, recurse, snap, idx + 1 + (sp.to - (idx - off)),
                     off + (sp.to - sp.from), [pidx |-> sp.from, t |-> w.grp])

\* The end of an iteration on a matched token, w what the wrap of the span
\* sp returned: a raise of the wrap is caught, a negative count makes
\* consume() raise, which is caught too after the offset has moved.
_group_consume(w, sp, g, p, recurse, snap, idx, off, keep) ==
    IF w.e # "none"
    THEN _group_loop(Ok(w.s), g, p, recurse, snap, idx + 1, off, keep)
    ELSE IF sp.to - (idx - off) < 0
    THEN _group_loop(Ok(w.s), g, p, recurse, snap, idx + 1, off + (sp.to - sp.from), keep)
    ELSE _group_loop(Ok(w.s), g, p, recurse, snap, idx + 1 + (sp.to - (idx - off)),
                     off + (sp.to - sp.from), [pidx |-> sp.from, t |-> w.grp])

\* r1 is what the recursion into the span sp returned.  The wrap at the
\* matched token `fault` fails with an exception of its own.
_group_spanned(r1, sp, g, p, recurse, snap, idx, off, keep) ==
    IF r1.e # "none" THEN r1
    ELSE _group_consume(IF keep.t = fault
                        THEN [s |-> r1.s, e |-> "InternalGroupingError", grp |-> NoTok]
                        ELSE _group_wrap(r1.s, g, p, sp.from, sp.to),
                        sp, g, p, recurse, snap, idx, off, keep)

\* sp is the span post returned for a matched token: "if from_idx".
_group_posted(sp, g, p, recurse, snap, idx, off, keep) ==
    IF ~Truthy(sp.from)
    THEN _group_loop(Ok(sp.s), g, p, recurse, snap, idx + 1, off, keep)
    ELSE IF sp.to = NoneIdx THEN Raise(sp.s, "TypeError")
    ELSE _group_spanned(_group_span(Ok(sp.s), g, p, recurse, (idx - off) + 1, sp.to),
                        sp, g, p, recurse, snap, idx, off, keep)

\* nxt is the pair (nidx, next_) of the token at idx: "if match(token)" and
\* "if prev_ and valid_prev(prev_) and valid_next(next_)".
_group_token(s, nxt, g, p, recurse, snap, idx, off, prev, keep) ==
    IF ~(/\ _group_match(p, s[keep.t])
         /\ prev.t # NoTok
         /\ _group_valid_prev(p, s, prev.t)
         /\ _group_valid_next(p, s, nxt.t))
    THEN _group_loop(Ok(s), g, p, recurse, snap, idx + 1, off, keep)
    ELSE _group_posted(_group_post(p, s, g, prev.pidx, idx - off, nxt.i),
                       g, p, recurse, snap, idx, off, keep)

\* r0 is what the recursion into the token at idx returned.
_group_recursed(r0, g, p, recurse, snap, idx, off, prev, keep) ==
    IF r0.e # "none" THEN r0
    ELSE _group_token(r0.s, token_next_d(r0.s, g, idx - off),
                      g, p, recurse, snap, idx, off, prev, keep)

\* tidx, computed for the token of the snapshot, is its position in the
\* list g.
_group_tracked(s, g, token, tidx) == InRange(s, g, tidx) /\ At(s, g, tidx) = token

_group_loop(r, g, p, recurse, snap, idx, off, prev) ==
    IF r.e # "none" \/ idx >= Len(snap) THEN r
    ELSE LET token == snap[idx + 1]
             tidx == idx - off
             s == IF tidx < 0
                     \/ (~is_whitespace(r.s[token]) /\ ~_group_tracked(r.s, g, token, tidx))
                  THEN [r.s EXCEPT ![g].index_lost = TRUE]
                  ELSE r.s
         IN IF tidx < 0 \/ is_whitespace(s[token])
            THEN _group_loop(Ok(s), g, p, recurse, snap, idx + 1, off, prev)
            ELSE _group_recursed(IF recurse /\ is_group(s[token])
                                    /\ ~isinstance(s[token], {_group_cls(p)})
                                 THEN _group(s, token, p, TRUE)
                                 ELSE Ok(s),
                                 g, p, recurse, snap, idx, off, prev,
                                 [pidx |-> tidx, t |-> token])

_group(s, g, p, recurse) ==
    _group_loop(Ok(s), g, p, recurse, s[g].tokens, 0, 0, [pidx |-> NoneIdx, t |-> NoTok])

\* A second _group, on what the first returned.
_group_then(r, g, p, recurse) == IF r.e # "none" THEN r ELSE _group(r.s, g, p, recurse)

group_typecasts(s, g) == _group(s, g, "typecasts", TRUE)
group_tzcasts(s, g) == _group(s, g, "tzcasts", TRUE)
group_typed_literal(s, g) ==
    _group_then(_group(s, g, "typed_literal", TRUE), g, "typed_literal_extend", TRUE)
group_period(s, g) == _group(s, g, "period", TRUE)
group_as(s, g) == _group(s, g, "as", TRUE)
group_assignment(s, g) == _group(s, g, "assignment", TRUE)
group_comparison(s, g) == _group(s, g, "comparison", TRUE)
group_conditions_list(s, g) == _group(s, g, "conditions_list", TRUE)
group_arrays(s, g) == _group(s, g, "arrays", FALSE)
group_operator(s, g) == _group(s, g, "operator", TRUE)
group_identifier_list(s, g) == _group(s, g, "identifier_list", TRUE)
group_statement_union(s, g) == _group(s, g, "statement_union", TRUE)
group_window_function(s, g) == _group(s, g, "window_function", TRUE)

(***************************************************************************)
(* The passes that scan a child list with token_next_by.  Each is the      *)
(* function as written; its decorator @recurse is applied by recurse       *)
(* (below).  A _loop is the pass's while loop, f the pair (tidx, token)    *)
(* it tests.                                                               *)
(***************************************************************************)
RECURSIVE group_identifier_placeholders(_, _, _)
group_identifier_placeholders(s, g, f) ==
    IF ~Truthy(f.i) THEN s
    ELSE LET tidx == f.i
             n == token_next(s, g, tidx, FALSE, TRUE, FALSE)
             p == token_next(s, g, tidx, FALSE, TRUE, TRUE)
             from_idx == IF Truthy(p.i)
                            /\ imt(s[p.t], {"Identifier"}, {}, {}, {"String.Symbol", "Name"})
                         THEN p.i ELSE tidx
             to_idx == IF n.t # NoTok
                          /\ imt(s[n.t], {"Identifier"}, {}, {}, {"String.Symbol", "Name"})
                       THEN n.i ELSE tidx
             s1 == group_tokens(s, g, "Identifier", from_idx, to_idx, FALSE).s
         IN group_identifier_placeholders(s1, g,
                token_next_by(s1, g, {}, {}, {"Name.Placeholder"}, {}, tidx, FALSE))

RECURSIVE group_identifier_names(_, _, _)
group_identifier_names(s, g, f) ==
    IF f.t = NoTok THEN s
    ELSE LET s1 == group_tokens(s, g, "Identifier", f.i, f.i, FALSE).s
         IN group_identifier_names(s1, g,
                token_next_by(s1, g, {}, {}, {}, {"String.Symbol", "Name"}, f.i, FALSE))

group_identifier(s, g) ==
    LET s1 == group_identifier_placeholders(s, g,
                  token_next_by(s, g, {}, {}, {"Name.Placeholder"}, {}, 0 - 1, FALSE))
    IN Ok(group_identifier_names(s1, g,
              token_next_by(s1, g, {}, {}, {}, {"String.Symbol", "Name"}, 0 - 1, FALSE)))

\* tpatt = (T.Operator, '-', False) given as t: the token types equal to a
\* member of the tuple.
group_signed_identifier_tpatt == {"Operator"}

RECURSIVE group_signed_identifier_loop(_, _, _)
group_signed_identifier_loop(s, g, f) ==
    IF ~Truthy(f.i) THEN s
    ELSE LET tidx == f.i
             n == token_next_d(s, g, tidx)
             p == token_next(s, g, tidx, TRUE, TRUE, TRUE)
             s1 == IF /\ n.t # NoTok
                      /\ isinstance(s[n.t], {"Identifier"})
                      /\ (~Truthy(p.i) \/ ~isinstance(s[p.t], {"Identifier"}))
                   THEN group_tokens(s, g, "SignedIdentifier", tidx, n.i, FALSE).s
                   ELSE s
         IN group_signed_identifier_loop(s1, g,
                token_next_by(s1, g, {}, {}, {}, group_signed_identifier_tpatt, tidx, FALSE))

group_signed_identifier(s, g) ==
    Ok(group_signed_identifier_loop(s, g,
           token_next_by(s, g, {}, {}, {}, group_signed_identifier_tpatt, 0 - 1, FALSE)))

\* TokenList.token_not_matching(funcs, idx) for the run of group_comments:
\* the first child at or after idx that is neither a comment token nor
\* whitespace.
token_not_matching(s, g, idx) ==
    Found(s, g, LeastIdx({k \in idx..(NTok(s, g) - 1) :
                              ~(TypeIn(s[At(s, g, k)].ttype, "Comment")
                                \/ is_whitespace(s[At(s, g, k)]))}))

RECURSIVE group_comments_loop(_, _, _)
group_comments_loop(s, g, f) ==
    IF f.t = NoTok THEN s
    ELSE LET tidx == f.i
             end == token_not_matching(s, g, tidx)
             eidx == token_prev(s, g, end.i, FALSE, FALSE).i
             s1 == IF end.t # NoTok
                   THEN group_tokens(s, g, "Comment", tidx, eidx, FALSE).s
                   ELSE s
         IN group_comments_loop(s1, g,
                token_next_by(s1, g, {}, {}, {"Comment"}, {}, tidx, FALSE))

group_comments(s, g) ==
    Ok(group_comments_loop(s, g, token_next_by(s, g, {}, {}, {"Comment"}, {}, 0 - 1, FALSE)))

\* TokenList._groupable_tokens: the children, without the delimiters for a
\* Parenthesis.
_groupable_last(s, g) ==
    IF s[g].cls = "Parenthesis" THEN NTok(s, g) - 2 ELSE NTok(s, g) - 1

ClauseWhere_M_CLOSE ==
    {M("Keyword", {"LIMIT", "UNION", "UNION ALL", "EXCEPT", "HAVING", "RETURNING", "INTO"})}
ClauseWhere_I_CLOSE == {"ClauseGroupBy", "ClauseOrderBy"}
ClauseFrom_M_CLOSE ==
    {M("Keyword", {"LIMIT", "UNION", "UNION ALL", "EXCEPT", "HAVING", "RETURNING", "INTO"})}
ClauseFrom_I_CLOSE == {"ClauseWhere", "ClauseGroupBy", "ClauseOrderBy"}

\* The loop shared by group_clause_where and group_clause_from.
RECURSIVE group_clause_span_loop(_, _, _, _, _, _)
group_clause_span_loop(s, g, cls, mclose, iclose, f) ==
    IF f.t = NoTok THEN Ok(s)
    ELSE LET tidx == f.i
             e == token_next_by(s, g, iclose, mclose, {}, {}, tidx, FALSE)
             last == _groupable_last(s, g)
             end == IF e.t = NoTok
                    THEN (IF last >= 0 /\ last < NTok(s, g) THEN At(s, g, last) ELSE NoTok)
                    ELSE At(s, g, e.i - 1)
             eidx == token_index(s, g, end)
             r == group_tokens(s, g, cls, tidx, eidx, FALSE)
         IN IF end = NoTok THEN Raise(s, "IndexError")
            ELSE IF r.e # "none" THEN Raise(r.s, r.e)
            ELSE group_clause_span_loop(r.s, g, cls, mclose, iclose,
                     token_next_by(r.s, g, {}, {M_OPEN(cls)}, {}, {}, tidx, FALSE))

group_clause_where(s, g) ==
    group_clause_span_loop(s, g, "ClauseWhere", ClauseWhere_M_CLOSE, ClauseWhere_I_CLOSE,
        token_next_by(s, g, {}, {M_OPEN("ClauseWhere")}, {}, {}, 0 - 1, FALSE))

group_clause_from(s, g) ==
    group_clause_span_loop(s, g, "ClauseFrom", ClauseFrom_M_CLOSE, ClauseFrom_I_CLOSE,
        token_next_by(s, g, {}, {M_OPEN("ClauseFrom")}, {}, {}, 0 - 1, FALSE))

group_aliased_I_ALIAS ==
    {"Function", "Case", "Identifier", "Operation", "Comparison", "WindowFunction"}

RECURSIVE group_aliased_loop(_, _, _)
group_aliased_loop(s, g, f) ==
    IF f.t = NoTok THEN s
    ELSE LET tidx == f.i
             n == token_next_d(s, g, tidx)
             s1 == IF n.t # NoTok /\ isinstance(s[n.t], {"Identifier"})
                   THEN group_tokens(s, g, "Identifier", tidx, n.i, TRUE).s
                   ELSE s
         IN group_aliased_loop(s1, g,
                token_next_by(s1, g, group_aliased_I_ALIAS, {}, {"Number"}, {}, tidx, FALSE))

group_aliased(s, g) ==
    Ok(group_aliased_loop(s, g,
           token_next_by(s, g, group_aliased_I_ALIAS, {}, {"Number"}, {}, 0 - 1, FALSE)))

group_sub_query_I_ALIAS == {"Parenthesis", "Identifier"}

\* token and next_ are a parenthesized subquery and its alias, in either
\* order.
group_sub_query_pair_unflagged(token, next_) ==
    \/ isinstance(token, {"Parenthesis"}) /\ isinstance(next_, {"Identifier"})
    \/ isinstance(token, {"Identifier"}) /\ isinstance(next_, {"Parenthesis"})
group_sub_query_pair(token, next_) ==
    IF isinstance(token, {"Parenthesis"}) /\ isinstance(next_, {"Identifier"})
    THEN token.is_subQuery
    ELSE IF isinstance(token, {"Identifier"}) /\ isinstance(next_, {"Parenthesis"})
    THEN next_.is_subQuery
    ELSE FALSE

RECURSIVE group_sub_query_loop(_, _, _)
group_sub_query_loop(s, g, f) ==
    IF f.t = NoTok THEN s
    ELSE LET tidx == f.i
             token == f.t
             n0 == token_next_d(s, g, tidx)
             n == IF n0.t # NoTok /\ match(s[n0.t], M("Keyword", {"AS"}))
                  THEN token_next_d(s, g, n0.i)
                  ELSE n0
             wrap == n.t # NoTok /\ group_sub_query_pair(s[token], s[n.t])
             s1 == IF wrap THEN group_tokens(s, g, "SubQuery", tidx, n.i, TRUE).s ELSE s
         IN group_sub_query_loop(s1, g,
                token_next_by(s1, g, group_sub_query_I_ALIAS, {}, {}, {}, tidx, FALSE))

group_sub_query(s, g) ==
    Ok(group_sub_query_loop(s, g,
           token_next_by(s, g, group_sub_query_I_ALIAS, {}, {}, {}, 0 - 1, FALSE)))

\* The loop shared by group_select_projection, group_clause_with and
\* group_clause_insert: from the opener to the next target, a missing
\* target raising the SQLParseError of the clause.
RECURSIVE group_clause_target_loop(_, _, _, _, _, _, _)
group_clause_target_loop(s, g, cls, icls, ts, error, f) ==
    IF f.t = NoTok THEN Ok(s)
    ELSE LET tidx == f.i
             e == token_next_by(s, g, icls, {}, ts, {}, tidx, FALSE)
             r == group_tokens(s, g, cls, tidx, e.i, FALSE)
         IN IF e.t = NoTok THEN Raise(s, error)
            ELSE group_clause_target_loop(r.s, g, cls, icls, ts, error,
                     token_next_by(r.s, g, {}, {M_OPEN(cls)}, {}, {}, tidx, FALSE))

group_select_projection_no_wildcard(s, g) ==
    group_clause_target_loop(s, g, "SelectProjection", {"IdentifierList", "Identifier"},
        {}, "SQLParseError:SELECT",
        token_next_by(s, g, {}, {M_OPEN("SelectProjection")}, {}, {}, 0 - 1, FALSE))
group_select_projection(s, g) ==
    group_clause_target_loop(s, g, "SelectProjection", {"IdentifierList", "Identifier"},
        {"Wildcard"}, "SQLParseError:SELECT",
        token_next_by(s, g, {}, {M_OPEN("SelectProjection")}, {}, {}, 0 - 1, FALSE))

group_clause_with(s, g) ==
    group_clause_target_loop(s, g, "ClauseWith", {"IdentifierList", "Identifier", "SubQuery"},
        {}, "SQLParseError:WITH",
        token_next_by(s, g, {}, {M_OPEN("ClauseWith")}, {}, {}, 0 - 1, FALSE))

group_clause_insert(s, g) ==
    group_clause_target_loop(s, g, "ClauseInsert", {"Parenthesis"},
        {}, "SQLParseError:INSERT",
        token_next_by(s, g, {}, {M_OPEN("ClauseInsert")}, {}, {}, 0 - 1, FALSE))

\* The loop shared by group_clause_partition_by, group_clause_order_by and
\* group_clause_group_by: token_index(end) raises ValueError when no target
\* follows the opener.
RECURSIVE group_clause_by_loop(_, _, _, _, _)
group_clause_by_loop(s, g, cls, icls, f) ==
    IF f.t = NoTok THEN Ok(s)
    ELSE LET tidx == f.i
             e == token_next_by(s, g, icls, {}, {}, {}, tidx, FALSE)
             eidx == token_index(s, g, e.t)
             r == group_tokens(s, g, cls, tidx, eidx, FALSE)
         IN IF e.t = NoTok THEN Raise(s, "ValueError")
            ELSE group_clause_by_loop(r.s, g, cls, icls,
                     token_next_by(r.s, g, {}, {M_OPEN(cls)}, {}, {}, tidx, FALSE))

group_clause_partition_by(s, g) ==
    group_clause_by_loop(s, g, "ClausePartitionBy", {"Identifier", "IdentifierList"},
        token_next_by(s, g, {}, {M_OPEN("ClausePartitionBy")}, {}, {}, 0 - 1, FALSE))

group_clause_order_by(s, g) ==
    group_clause_by_loop(s, g, "ClauseOrderBy", {"Identifier", "IdentifierList", "Function"},
        token_next_by(s, g, {}, {M_OPEN("ClauseOrderBy")}, {}, {}, 0 - 1, FALSE))

group_clause_group_by(s, g) ==
    group_clause_by_loop(s, g, "ClauseGroupBy", {"Identifier", "IdentifierList"},
        token_next_by(s, g, {}, {M_OPEN("ClauseGroupBy")}, {}, {}, 0 - 1, FALSE))

StatementSelect_I_OPEN == {"SelectProjection"}
StatementSelect_M_CLOSE ==
    {M("Keyword", {"UNION", "UNION ALL"}), M("Punctuation", {";"})}
StatementInsert_I_OPEN == {"ClauseInsert"}
StatementInsert_M_CLOSE == {M("Punctuation", {";"})}

\* The while loop.  When no closer follows the opener and eidx < sidx (the
\* opener is the last child and offset is 1), group_tokens gets the empty
\* slice tokens[sidx:eidx + 1]: it inserts an empty StatementSelect at sidx,
\* the opener moves to tidx + 1, the scan finds it there, and the next
\* round is in the same case with one child more.  The loop never ends:
\* the result "diverges" stands for the call that does not return.
RECURSIVE group_statement_select_loop(_, _, _, _)
group_statement_select_loop(s, g, offset, f) ==
    IF f.t = NoTok THEN Ok(s)
    ELSE LET tidx == f.i
             prev == token_next(s, g, tidx, TRUE, TRUE, TRUE)
             sidx == IF prev.t # NoTok /\ isinstance(s[prev.t], {"ClauseWith"})
                     THEN prev.i ELSE tidx
             e == token_next_by(s, g, {}, StatementSelect_M_CLOSE, {}, {}, tidx, FALSE)
             eidx == IF e.t = NoTok THEN NTok(s, g) - 1 - offset ELSE e.i - 1
             r == group_tokens(s, g, "StatementSelect", sidx, eidx, FALSE)
         IN IF r.e # "none" THEN Raise(r.s, r.e)
            ELSE IF e.t = NoTok /\ eidx < sidx THEN Raise(s, "diverges")
            ELSE group_statement_select_loop(r.s, g, offset,
                     token_next_by(r.s, g, StatementSelect_I_OPEN, {}, {}, {}, tidx, FALSE))

group_statement_select(s, g) ==
    IF NTok(s, g) = 0 THEN Raise(s, "IndexError")
    ELSE LET offset == IF \/ isinstance(s[g], {"Parenthesis"})
                          \/ match(s[Last(s[g].tokens)], M("Punctuation", {")"}))
                       THEN 1 ELSE 0
         IN group_statement_select_loop(s, g, offset,
                token_next_by(s, g, StatementSelect_I_OPEN, {}, {}, {}, 0 - 1, FALSE))

RECURSIVE group_statement_insert_loop(_, _, _)
group_statement_insert_loop(s, g, f) ==
    IF f.t = NoTok THEN Ok(s)
    ELSE LET tidx == f.i
             prev == token_next(s, g, tidx, TRUE, TRUE, TRUE)
             sidx == IF prev.t # NoTok /\ isinstance(s[prev.t], {"ClauseWith"})
                     THEN prev.i ELSE tidx
             e == token_next_by(s, g, {}, StatementInsert_M_CLOSE, {}, {}, tidx, FALSE)
             r == group_tokens(s, g, "StatementInsert", sidx, e.i - 1, FALSE)
         IN IF e.t = NoTok THEN Raise(s, "TypeError")
            ELSE IF r.e # "none" THEN Raise(r.s, r.e)
            ELSE group_statement_insert_loop(r.s, g,
                     token_next_by(r.s, g, StatementInsert_I_OPEN, {}, {}, {}, tidx, FALSE))

group_statement_insert(s, g) ==
    group_statement_insert_loop(s, g,
        token_next_by(s, g, StatementInsert_I_OPEN, {}, {}, {}, 0 - 1, FALSE))

RECURSIVE group_functions_loop(_, _, _)
group_functions_loop(s, g, f) ==
    IF f.t = NoTok THEN s
    ELSE LET tidx == f.i
             n == token_next(s, g, tidx, TRUE, TRUE, FALSE)
             s1 == IF n.t # NoTok /\ isinstance(s[n.t], {"Parenthesis"})
                   THEN group_tokens(s, g, "Function", tidx, n.i, FALSE).s
                   ELSE s
         IN group_functions_loop(s1, g,
                token_next_by(s1, g, {}, {}, {"Name"}, {}, tidx, FALSE))

group_functions(s, g) ==
    LET has_create == \E k \in 1..NTok(s, g) : s[s[g].tokens[k]].value = "CREATE"
        has_table == \E k \in 1..NTok(s, g) : s[s[g].tokens[k]].value = "TABLE"
    IN IF has_create /\ has_table THEN Ok(s)
       ELSE Ok(group_functions_loop(s, g,
                   token_next_by(s, g, {}, {}, {"Name.Builtin"}, {}, 0 - 1, FALSE)))

RECURSIVE group_order_loop(_, _, _)
group_order_loop(s, g, f) ==
    IF f.t = NoTok THEN s
    ELSE LET tidx == f.i
             prev == token_prev_d(s, g, tidx)
             hit == prev.t # NoTok /\ imt(s[prev.t], {"Identifier"}, {}, {"Number"}, {})
             s1 == IF hit THEN group_tokens(s, g, "Identifier", prev.i, tidx, FALSE).s ELSE s
             tidx1 == IF hit THEN prev.i ELSE tidx
         IN group_order_loop(s1, g,
                token_next_by(s1, g, {}, {}, {"Keyword.Order"}, {}, tidx1, FALSE))

group_order(s, g) ==
    Ok(group_order_loop(s, g,
           token_next_by(s, g, {}, {}, {"Keyword.Order"}, {}, 0 - 1, FALSE)))

\* The while loop of align_comments changes nothing.
align_comments(s, g) == Ok(s)

\* The index of the last Parenthesis met walking token_next from f on.
RECURSIVE group_values_loop(_, _, _, _)
group_values_loop(s, g, f, end_idx) ==
    IF f.t = NoTok THEN end_idx
    ELSE group_values_loop(s, g, token_next_d(s, g, f.i),
                           IF isinstance(s[f.t], {"Parenthesis"}) THEN f.i ELSE end_idx)

group_values(s, g) ==
    LET f == token_next_by(s, g, {}, {M("Keyword", {"VALUES"})}, {}, {}, 0 - 1, FALSE)
        end_idx == group_values_loop(s, g, f, 0 - 1)
        r == group_tokens(s, g, "Values", f.i, end_idx, TRUE)
    IN IF end_idx # 0 - 1 THEN Raise(r.s, r.e) ELSE Ok(s)

(***************************************************************************)
(* @recurse(cls): the decorated function first runs on every sublist that  *)
(* is not of a kind in cls, then on the list itself.                       *)
(***************************************************************************)
\* The kinds a decorated pass does not descend into.
recurse_cls(q) ==
    CASE q = "group_identifier" -> {"Identifier"}
      [] q = "group_signed_identifier" -> {"SignedIdentifier"}
      [] q = "group_comments" -> {"Comment"}
      [] q = "group_clause_where" -> {"ClauseWhere"}
      [] q = "group_clause_from" -> {"ClauseFrom"}
      [] q = "group_select_projection" -> {"SelectProjection"}
      [] q = "group_clause_with" -> {"ClauseWith"}
      [] q = "group_clause_partition_by" -> {"ClausePartitionBy"}
      [] q = "group_clause_order_by" -> {"ClauseOrderBy"}
      [] q = "group_clause_group_by" -> {"ClauseGroupBy"}
      [] q = "group_clause_insert" -> {"ClauseInsert"}
      [] q = "group_statement_select" -> {"StatementSelect"}
      [] q = "group_statement_insert" -> {"StatementInsert"}
      [] q = "group_functions" -> {"Function"}
      [] OTHER -> {}

\* The function a decorated pass wraps.
recurse_f(q, s, g) ==
    CASE q = "group_identifier" -> group_identifier(s, g)
      [] q = "group_signed_identifier" -> group_signed_identifier(s, g)
      [] q = "group_comments" -> group_comments(s, g)
      [] q = "group_clause_where" -> group_clause_where(s, g)
      [] q = "group_clause_from" -> group_clause_from(s, g)
      [] q = "group_select_projection" -> group_select_projection(s, g)
      [] q = "group_clause_with" -> group_clause_with(s, g)
      [] q = "group_clause_partition_by" -> group_clause_partition_by(s, g)
      [] q = "group_clause_order_by" -> group_clause_order_by(s, g)
      [] q = "group_clause_group_by" -> group_clause_group_by(s, g)
      [] q = "group_clause_insert" -> group_clause_insert(s, g)
      [] q = "group_statement_select" -> group_statement_select(s, g)
      [] q = "group_statement_insert" -> group_statement_insert(s, g)
      [] q = "group_functions" -> group_functions(s, g)
      [] q = "group_aliased" -> group_aliased(s, g)
      [] q = "group_sub_query" -> group_sub_query(s, g)
      [] q = "align_comments" -> align_comments(s, g)

RECURSIVE recurse(_, _, _)
RECURSIVE recurse_sublists(_, _, _, _)
recurse_sublists(r, g, q, k) ==
    IF r.e # "none" \/ k > NTok(r.s, g) THEN r
    ELSE IF /\ is_group(r.s[r.s[g].tokens[k]])
            /\ ~isinstance(r.s[r.s[g].tokens[k]], recurse_cls(q))
    THEN recurse_sublists(recurse(r.s, r.s[g].tokens[k], q), g, q, k + 1)
    ELSE recurse_sublists(r, g, q, k + 1)

\* The call of the wrapped function, r what the sublists returned.
recurse_call(r, g, q) == IF r.e # "none" THEN r ELSE recurse_f(q, r.s, g)

recurse(s, g, q) == recurse_call(recurse_sublists(Ok(s), g, q, 1), g, q)


(***************************************************************************)
(* group(stmt): the passes in their order.                                 *)
(***************************************************************************)
group_passes ==
    <<"group_comments", "group_brackets", "group_parenthesis", "group_case",
      "group_if", "group_for", "group_begin", "group_functions",
      "group_window_function", "group_period", "group_arrays", "group_identifier",
      "group_signed_identifier", "group_order", "group_typecasts", "group_tzcasts",
      "group_typed_literal", "group_operator", "group_comparison", "group_as",
      "group_sub_query", "group_aliased", "group_assignment", "group_conditions_list",
      "align_comments", "group_identifier_list", "group_clause_partition_by",
      "group_clause_order_by", "group_clause_group_by", "group_values",
      "group_clause_where", "group_clause_from", "group_select_projection",
      "group_clause_with", "group_clause_insert", "group_statement_select",
      "group_statement_union", "group_statement_insert">>

\* The names of the passes.
PassNames == {group_passes[k] : k \in 1..Len(group_passes)}

\* One pass of group on the statement.
run_pass(q, s) ==
    CASE q = "group_brackets" -> group_brackets(s, Root)
      [] q = "group_parenthesis" -> group_parenthesis(s, Root)
      [] q = "group_case" -> group_case(s, Root)
      [] q = "group_if" -> group_if(s, Root)
      [] q = "group_for" -> group_for(s, Root)
      [] q = "group_begin" -> group_begin(s, Root)
      [] q = "group_window_function" -> group_window_function(s, Root)
      [] q = "group_period" -> group_period(s, Root)
      [] q = "group_arrays" -> group_arrays(s, Root)
      [] q = "group_order" -> group_order(s, Root)
      [] q = "group_typecasts" -> group_typecasts(s, Root)
      [] q = "group_tzcasts" -> group_tzcasts(s, Root)
      [] q = "group_typed_literal" -> group_typed_literal(s, Root)
      [] q = "group_operator" -> group_operator(s, Root)
      [] q = "group_comparison" -> group_comparison(s, Root)
      [] q = "group_as" -> group_as(s, Root)
      [] q = "group_assignment" -> group_assignment(s, Root)
      [] q = "group_conditions_list" -> group_conditions_list(s, Root)
      [] q = "group_identifier_list" -> group_identifier_list(s, Root)
      [] q = "group_values" -> group_values(s, Root)
      [] q = "group_statement_union" -> group_statement_union(s, Root)
      [] OTHER -> recurse(s, Root, q)

\* Statement(tokens): the root group over a flat token stream.
Statement(input) ==
    <<[NewGroup("Statement", [k \in 1..Len(input) |-> k + 1]) EXCEPT !.cls = "Statement"]>>
    \o input

\* The tree below a node as a value: a leaf is its type and value, a group
\* its kind, its attributes and the trees of its children.
RECURSIVE Tree(_, _)
Tree(s, t) ==
    IF ~is_group(s[t]) THEN <<s[t].ttype, s[t].value>>
    ELSE [cls |-> s[t].cls,
          is_subQuery |-> s[t].is_subQuery,
          is_codeBlockDelimiter |-> s[t].is_codeBlockDelimiter,
          conditions_count |-> s[t].conditions_count,
          tokens |-> [k \in 1..Len(s[t].tokens) |-> Tree(s, s[t].tokens[k])]]

(***************************************************************************)
(* The reindent walker: SSSplitterFilter and its subclass ReindentFilter.  *)
(* A walk threads the record [s, f, e]: the store, the filter object and   *)
(* the exception in flight ("none" when there is none).                    *)
(***************************************************************************)
\* The newline and the indent character of the filter (its defaults).
filter_n == "\n"
filter_char == " "

\* c * k
RECURSIVE Rep(_, _)
Rep(c, k) == IF k <= 0 THEN "" ELSE c \o Rep(c, k - 1)

\* ReindentFilter(width, char, wrap_after, n, comma_first,
\* indent_after_first, indent_columns): the filter after construction.
\* printed is what _process has written to stdout: for every exception it
\* caught, the exception (e), the group it was caught at (g) and, from the
\* traceback, the group whose handler raised it (at).  split is no
\* attribute of the filter: it records the iterations of the loop of
\* _split_kwds, by the list (g) and the keyword (t) each handled.
ReindentFilter(width, wrap_after, comma_first, indent_after_first, indent_columns) ==
    [offset |-> 0, indent |-> IF indent_after_first THEN 1 ELSE 0, width |-> width,
     wrap_after |-> wrap_after, comma_first |-> comma_first,
     indent_columns |-> indent_columns, last_func |-> NoTok, curr_stmt |-> NoTok,
     printed |-> <<>>, split |-> <<>>]

\* A walk that has not raised: the store, the filter, the exception in
\* flight and the group whose handler was called without _process and let
\* it pass (NoTok when the exception has not left the handler it rose in).
Walk(s, f) == [s |-> s, f |-> f, e |-> "none", at |-> NoTok]

\* st is what the handler of g returned to the handler that called it
\* directly.
Called(st, g) == IF st.e # "none" /\ st.at = NoTok THEN [st EXCEPT !.at = g] ELSE st

\* str(token): the values of the leaves below it, concatenated.
RECURSIVE Concat(_, _, _)
Concat(s, seq, k) == IF k > Len(seq) THEN "" ELSE s[seq[k]].value \o Concat(s, seq, k + 1)
str(s, t) == Concat(s, flatten(s, t), 1)

\* token.parent, None for the root.
Parent(s, t) ==
    LET ps == {g \in 1..Len(s) : \E k \in 1..Len(s[g].tokens) : s[g].tokens[k] = t}
    IN IF ps = {} THEN NoTok ELSE CHOOSE g \in ps : TRUE

\* Token.within(kinds): some ancestor is of one of the kinds.
RECURSIVE within(_, _, _)
within(s, t, kinds) ==
    LET p == Parent(s, t)
    IN p # NoTok /\ (isinstance(s[p], kinds) \/ within(s, p, kinds))

\* list.insert(i, x)
ListInsert(seq, i, x) ==
    LET k == IF i < 0 THEN Max(i + Len(seq), 0) ELSE Min(i, Len(seq))
    IN SubSeq(seq, 1, k) \o <<x>> \o SubSeq(seq, k + 1, Len(seq))

\* TokenList.insert_before(where, token) for an index where: the new token
\* gets the next free address.
insert_before_idx(s, g, where, token) ==
    Append([s EXCEPT ![g].tokens = ListInsert(@, where, Len(s) + 1)], token)

\* TokenList.insert_before(where, token) for a token where: ValueError when
\* where is no child of the list.
insert_before(s, g, where, token) ==
    LET i == token_index(s, g, where)
    IN IF i = NoneIdx THEN Raise(s, "ValueError")
       ELSE Ok(insert_before_idx(s, g, i, token))

\* TokenList.insert_after(where, token): before the next non-whitespace
\* child, at the end when there is none.
insert_after(s, g, where, token) ==
    LET i == token_index(s, g, where)
        nx == token_next_d(s, g, i)
    IN IF i = NoneIdx THEN Raise(s, "ValueError")
       ELSE IF nx.t = NoTok THEN Ok(insert_before_idx(s, g, NTok(s, g), token))
       ELSE Ok(insert_before_idx(s, g, nx.i, token))

\* IdentifierList.get_identifiers(): the children that are neither
\* whitespace nor a comma.
get_identifiers(s, g) ==
    SelectSeq(s[g].tokens,
              LAMBDA t : ~(is_whitespace(s[t]) \/ match(s[t], M("Punctuation", {","}))))

\* IdentifierList.id_list_count: the number of its identifiers.
id_list_count(s, g) == Len(get_identifiers(s, g))

\* get_identifiers_list() of a clause: its IdentifierList or Identifier,
\* None when it has none.
get_identifiers_list(s, g) ==
    token_next_by(s, g, {"IdentifierList", "Identifier"}, {}, {}, {}, 0 - 1, FALSE).t

\* opening_keyword_length of a clause: the length of its first token.
opening_keyword_length(s, g) == Len(str(s, At(s, g, 0)))

\* The kinds that are sections of a statement.
SectionKinds ==
    {"SelectProjection", "ClauseFrom", "ClauseWhere", "ClauseWith", "ClauseInsert",
     "ClauseGroupBy", "ClauseOrderBy", "ClausePartitionBy", "Values",
     "StatementSelect", "StatementInsert", "StatementUnion"}

\* TokenList.get_sections(): the children that are sections.
get_sections(s, g) == SelectSeq(s[g].tokens, LAMBDA t : s[t].cls \in SectionKinds)

\* Case.get_cases(): the (condition, value) pairs of a CASE; has_cond is
\* false for the pair of an ELSE, whose condition is None.
RECURSIVE get_cases_loop(_, _, _, _, _)
get_cases_loop(s, toks, k, ret, mode) ==
    IF k > Len(toks) THEN ret
    ELSE LET t == toks[k]
             kw(v) == match(s[t], M("Keyword", {v}))
         IN IF kw("CASE") THEN get_cases_loop(s, toks, k + 1, ret, mode)
            ELSE LET ret1 == IF kw("WHEN")
                             THEN Append(ret, [has_cond |-> TRUE, cond |-> <<>>, value |-> <<>>])
                             ELSE IF kw("ELSE")
                             THEN Append(ret, [has_cond |-> FALSE, cond |-> <<>>, value |-> <<>>])
                             ELSE ret
                     mode1 == IF kw("WHEN") THEN "CONDITION"
                              ELSE IF kw("THEN") \/ kw("ELSE") THEN "VALUE"
                              ELSE IF kw("END") THEN "None"
                              ELSE mode
                     ret2 == IF mode1 # "None" /\ ret1 = <<>>
                             THEN <<[has_cond |-> TRUE, cond |-> <<>>, value |-> <<>>]>>
                             ELSE ret1
                     ret3 == IF mode1 = "CONDITION"
                             THEN [ret2 EXCEPT ![Len(ret2)].cond = Append(@, t)]
                             ELSE IF mode1 = "VALUE"
                             THEN [ret2 EXCEPT ![Len(ret2)].value = Append(@, t)]
                             ELSE ret2
                 IN get_cases_loop(s, toks, k + 1, ret3, mode1)

get_cases(s, g) == get_cases_loop(s, s[g].tokens, 1, <<>>, "CONDITION")

\* with offset(filter, k): entering and leaving the scope.  The offset is
\* restored on every exit path, an exception in flight included.
offset_enter(st, k) == [st EXCEPT !.f.offset = @ + k]
offset_exit(st, k) == [st EXCEPT !.f.offset = @ - k]

\* with indent(filter)
indent_enter(st) == [st EXCEPT !.f.indent = @ + 1]
indent_exit(st) == [st EXCEPT !.f.indent = @ - 1]

\* SSSplitterFilter.leading_ws
leading_ws(f) == f.offset + f.indent * f.width

\* value is a newline followed by indent characters only.
has_newline(v) == Len(v) >= 1 /\ v = filter_n \o Rep(filter_char, Len(v) - 1)

\* The number of characters after the last newline of the concatenation of
\* the leaves seq.
RECURSIVE tail_len(_, _)
tail_len(s, seq) ==
    IF seq = <<>> THEN 0
    ELSE LET v == s[Last(seq)].value
         IN IF has_newline(v) THEN Len(v) - 1
            ELSE tail_len(s, Front(seq)) + Len(v)

\* len((raw or '\n').splitlines()[-1]) for raw the concatenation of the
\* leaves seq: a newline that ends raw ends the last line.
last_line_len(s, seq) ==
    IF seq # <<>> /\ s[Last(seq)].value = filter_n
    THEN tail_len(s, Front(seq))
    ELSE tail_len(s, seq)

\* SSSplitterFilter._flatten_up_to_token(token): the leaves of the current
\* statement before token (before its first leaf when it is a group).
_flatten_up_to_token(s, f, token) ==
    LET tk == IF is_group(s[token]) THEN flatten(s, token)[1] ELSE token
        fl == flatten(s, f.curr_stmt)
        at == {k \in 1..Len(fl) : fl[k] = tk}
    IN IF at = {} THEN fl ELSE SubSeq(fl, 1, (CHOOSE k \in at : TRUE) - 1)

\* SSSplitterFilter._get_token_offset(token): the column of token relative
\* to the leading whitespace; [v, e] with e the exception on a token None.
_get_token_offset(s, f, token) ==
    IF token = NoTok THEN [v |-> 0, e |-> "AttributeError"]
    ELSE IF is_group(s[token]) /\ flatten(s, token) = <<>>
    THEN [v |-> 0, e |-> "RuntimeError"]
    ELSE [v |-> last_line_len(s, _flatten_up_to_token(s, f, token))
                - Len(Rep(filter_char, leading_ws(f))),
          e |-> "none"]

\* SSSplitterFilter.nl(offset)
nl_text(f, offset) ==
    Leaf("Text", filter_n \o Rep(filter_char, Max(0, leading_ws(f) + offset)))
nl(f, offset) ==
    Leaf("Whitespace", filter_n \o Rep(filter_char, Max(0, leading_ws(f) + offset)))

\* The normalized keywords that a pattern of split_words is found in.
split_words ==
    {"JOIN", "LEFT JOIN", "RIGHT JOIN", "FULL JOIN", "INNER JOIN", "OUTER JOIN",
     "CROSS JOIN", "NATURAL JOIN", "LEFT OUTER JOIN", "RIGHT OUTER JOIN",
     "FULL OUTER JOIN", "GROUP BY", "ORDER BY", "AND", "INTO", "OR", "HAVING",
     "LIMIT", "UNION", "UNION ALL", "VALUES", "SET", "BETWEEN", "EXCEPT",
     "FOR", "END FOR", "ORDER", "OFFSET", "INSERT INTO"}

\* SSSplitterFilter._next_token(tlist, idx): the next split keyword after
\* idx; after a BETWEEN, the one after it, and after its AND the next.
RECURSIVE _next_token(_, _, _)
_next_token_and_split(s, g, idx) ==
    LET fnd == token_next_by(s, g, {}, {M("Keyword", split_words)}, {}, {}, idx, FALSE)
    IN IF fnd.t # NoTok /\ normalized(s[fnd.t]) = "BETWEEN"
       THEN _next_token(s, g, fnd.i)
       ELSE fnd

_next_token(s, g, idx) ==
    LET fnd == token_next_by(s, g, {}, {M("Keyword", split_words)}, {}, {}, idx, FALSE)
    IN IF fnd.t # NoTok /\ normalized(s[fnd.t]) = "BETWEEN"
       THEN LET nx == _next_token(s, g, fnd.i)
            IN IF nx.t # NoTok /\ normalized(s[nx.t]) = "AND"
               THEN _next_token(s, g, nx.i)
               ELSE nx
       ELSE fnd

\* ReindentFilter._get_kwd_offset, _get_section_offset
_get_kwd_offset(token) == 0
_get_section_offset(token) == 0

\* The walk st with the store and the exception of the result r.
Stored(st, r) == [st EXCEPT !.s = r.s, !.e = r.e]

\* SSSplitterFilter._split_kwds(tlist): a newline before every split
\* keyword of the list.  _split_kwds_loop is the while loop on the keyword
\* fnd; _split_kwds_next the search of the next one from tidx.
RECURSIVE _split_kwds_loop(_, _, _)
_split_kwds_next(st, g, tidx) == _split_kwds_loop(st, g, _next_token(st.s, g, tidx))

\* The while loop with two newlines inserted before the keyword.
_split_kwds_loop_twice(st, g, fnd) ==
    IF st.e # "none" \/ fnd.t = NoTok THEN st
    ELSE _split_kwds_next(
             Stored([st EXCEPT !.f.split = Append(@, [g |-> g, t |-> fnd.t])],
                    insert_before(
                        insert_before(st.s, g, fnd.t, nl(st.f, _get_kwd_offset(fnd.t))).s,
                        g, fnd.t, nl(st.f, _get_kwd_offset(fnd.t)))),
             g, fnd.i + 2)

_split_kwds_loop(st, g, fnd) ==
    IF st.e # "none" \/ fnd.t = NoTok THEN st
    ELSE _split_kwds_next(
             Stored([st EXCEPT !.f.split = Append(@, [g |-> g, t |-> fnd.t])],
                    insert_before(st.s, g, fnd.t, nl(st.f, _get_kwd_offset(fnd.t)))),
             g, fnd.i + 1)

_split_kwds(st, g) == _split_kwds_next(st, g, 0 - 1)

\* SSSplitterFilter._split_sections(tlist): a newline before every section
\* of the list but the popped first.
RECURSIVE _split_sections_loop(_, _, _, _)
_split_sections_loop(st, g, nested, k) ==
    IF st.e # "none" \/ k > Len(nested) THEN st
    ELSE _split_sections_loop(
             Stored(st, insert_before(st.s, g, nested[k],
                                      nl(st.f, _get_section_offset(nested[k])))),
             g, nested, k + 1)

_split_sections_pop_first(st, g) ==
    LET nested == get_sections(st.s, g)
    IN _split_sections_loop(st, g, IF nested # <<>> THEN Tail(nested) ELSE nested, 1)

_split_sections(st, g) ==
    LET nested == get_sections(st.s, g)
        p == Parent(st.s, g)
        pop == /\ nested # <<>>
               /\ \/ p = NoTok
                  \/ Parent(st.s, p) = NoTok
                  \/ isinstance(st.s[nested[1]], {"SelectProjection", "StatementSelect"})
    IN _split_sections_loop(st, g, IF pop THEN Tail(nested) ELSE nested, 1)

RECURSIVE _process(_, _)
RECURSIVE _process_default(_, _)
RECURSIVE _process_identifierlist(_, _, _)
RECURSIVE _process_parenthesis(_, _)
RECURSIVE _process_case(_, _)
RECURSIVE _process_conditionslist(_, _)
RECURSIVE _process_clauseidentifierslist(_, _, _)

\* for sgroup in tlist.get_sublists(): self._process(sgroup)
RECURSIVE _process_sublists(_, _, _)
_process_sublists(st, subl, k) ==
    IF k > Len(subl) THEN st
    ELSE _process_sublists(_process(st, subl[k]), subl, k + 1)

\* The loop over the sublists of g, reached unless st has raised.
_process_each_sublist(st, g) ==
    IF st.e # "none" THEN st ELSE _process_sublists(st, get_sublists(st.s, g), 1)

\* SSSplitterFilter._process_default(tlist)
_process_default(st, g) == _process_each_sublist(_split_kwds(st, g), g)

\* The call of _process_default that ends a handler, reached unless st has
\* raised.
_process_default_last(st, g) == IF st.e # "none" THEN st ELSE _process_default(st, g)

\* SSSplitterFilter._process_function(tlist)
_process_function(st, g) ==
    IF NTok(st.s, g) = 0 THEN [st EXCEPT !.e = "IndexError"]
    ELSE _process_default([st EXCEPT !.f.last_func = At(st.s, g, 0)], g)

\* With comma_first, the space after the comma tk unless whitespace
\* follows the child at tidx; r1 is what the insert of the newline returned.
_process_identifierlist_space(r1, ws, f, g, tk) ==
    IF r1.e = "none" /\ f.comma_first /\ ws # NoTok /\ r1.s[ws].ttype # "Whitespace"
    THEN insert_after(r1.s, g, tk, Leaf("Whitespace", " "))
    ELSE r1

\* The newline before tk, the identifier at tidx or the comma before it.
_process_identifierlist_nl(r1, f, g, tk, tidx) ==
    _process_identifierlist_space(r1, token_next(r1.s, g, tidx, FALSE, TRUE, FALSE).t,
                                  f, g, tk)

\* The first loop of _process_identifierlist: a newline before every
\* identifier at which the line has grown past wrap_after.
RECURSIVE _process_identifierlist_wrap(_, _, _, _, _)
_process_identifierlist_wrap(st, g, identifiers, k, position) ==
    IF st.e # "none" \/ k > Len(identifiers) THEN st
    ELSE LET s == st.s
             token == identifiers[k]
             pos == position + Len(str(s, token)) + 1
             tidx == token_index(s, g, token)
             comma == token_prev_d(s, g, tidx).t
             tk == IF st.f.comma_first THEN comma ELSE token
             adjust == IF st.f.comma_first THEN 0 - 2 ELSE 0
         IN IF ~(pos > st.f.wrap_after - st.f.offset)
            THEN _process_identifierlist_wrap(st, g, identifiers, k + 1, pos)
            ELSE IF st.f.comma_first /\ comma = NoTok
            THEN _process_identifierlist_wrap(st, g, identifiers, k + 1, pos)
            ELSE _process_identifierlist_wrap(
                     Stored(st, _process_identifierlist_nl(
                                    insert_before(s, g, tk, nl(st.f, adjust)),
                                    st.f, g, tk, tidx)),
                     g, identifiers, k + 1, 0)

\* The second loop of _process_identifierlist (a list within a Function or
\* a Values): a newline only when wrap_after is set and crossed.
RECURSIVE _process_identifierlist_fill(_, _, _, _, _)
_process_identifierlist_fill(st, g, identifiers, k, position) ==
    IF st.e # "none" \/ k > Len(identifiers) THEN st
    ELSE LET token == identifiers[k]
             pos == position + Len(str(st.s, token)) + 1
         IN IF st.f.wrap_after > 0 /\ pos > st.f.wrap_after - st.f.offset
            THEN _process_identifierlist_fill(
                     Stored(st, insert_before(st.s, g, token, nl(st.f, 0))),
                     g, identifiers, k + 1, 0)
            ELSE _process_identifierlist_fill(st, g, identifiers, k + 1, pos)

\* sum(len(i.value) + 1 for i in identifiers)
RECURSIVE SumLen(_, _, _)
SumLen(s, identifiers, k) ==
    IF k > Len(identifiers) THEN 0
    ELSE Len(str(s, identifiers[k])) + 1 + SumLen(s, identifiers, k + 1)

\* if adjusted_offset < 0: tlist.insert_before(identifiers[0], self.nl())
_process_identifierlist_first(ent, g, identifiers, adjusted_offset) ==
    IF adjusted_offset >= 0 THEN ent
    ELSE IF identifiers = <<>> THEN [ent EXCEPT !.e = "IndexError"]
    ELSE Stored(ent, insert_before(ent.s, g, identifiers[1], nl(ent.f, 0)))

\* The two branches of _process_identifierlist on the identifiers after
\* the first.
_process_identifierlist_lines(st, g, identifiers, max_id_list_count) ==
    LET s == st.s
        num_offset == IF st.f.indent_columns THEN st.f.width ELSE 0
        many == id_list_count(s, g) > max_id_list_count
        end_at == st.f.offset + SumLen(s, identifiers, 1)
        adjusted_offset ==
            IF /\ st.f.wrap_after > 0
               /\ end_at > st.f.wrap_after - st.f.offset
               /\ st.f.last_func # NoTok
            THEN 0 - Len(str(s, st.f.last_func)) - 1
            ELSE 0
    IN IF many /\ ~within(s, g, {"Function"}) /\ ~within(s, g, {"Values"})
       THEN offset_exit(_process_identifierlist_wrap(offset_enter(st, num_offset),
                                                     g, identifiers, 1, 0),
                        num_offset)
       ELSE IF many
       THEN offset_exit(
                indent_exit(
                    _process_identifierlist_fill(
                        _process_identifierlist_first(
                            indent_enter(offset_enter(st, adjusted_offset)),
                            g, identifiers, adjusted_offset),
                        g, identifiers, 1, 0)),
                adjusted_offset)
       ELSE st

\* ReindentFilter._process_identifierlist(tlist, max_id_list_count)
_process_identifierlist(st, g, max_id_list_count) ==
    IF get_identifiers(st.s, g) = <<>> THEN [st EXCEPT !.e = "IndexError"]
    ELSE _process_default_last(
             _process_identifierlist_lines(st, g, Tail(get_identifiers(st.s, g)),
                                           max_id_list_count),
             g)

\* for token in tlist[1:-1]: the groups of the slice are processed.
RECURSIVE _process_parenthesis_body(_, _, _)
_process_parenthesis_body(st, toks, k) ==
    IF k > Len(toks) \/ st.e # "none" THEN st
    ELSE IF ~is_group(st.s[toks[k]])
    THEN _process_parenthesis_body(st, toks, k + 1)
    ELSE IF isinstance(st.s[toks[k]], {"IdentifierList"})
    THEN _process_parenthesis_body(Called(_process_identifierlist(st, toks[k], 2), toks[k]),
                                   toks, k + 1)
    ELSE _process_parenthesis_body(_process(st, toks[k]), toks, k + 1)

\* The tokens _process_parenthesis inserts and indentation_offset (o); p
\* is the parent of the list and col what _get_token_offset(first)
\* returned.
_process_parenthesis_pad(s, f, g, p, col) ==
    IF s[g].is_codeBlockDelimiter
    THEN [s |-> insert_before_idx(insert_before_idx(s, g, 0 - 1, nl(f, 0)),
                                  g, 1, nl(f, 4)),
          e |-> "none", o |-> 4]
    ELSE IF p # NoTok /\ isinstance(s[p], {"ClauseInsert"})
    THEN [s |-> insert_before_idx(insert_before_idx(s, g, 1, nl(f, Len("SELECT "))),
                                  g, 0 - 1, Leaf("Whitespace", " ")),
          e |-> "none", o |-> Len("SELECT ")]
    ELSE IF col.e # "none" THEN [s |-> s, e |-> col.e, o |-> 0]
    ELSE IF NTok(s, g) < 2 /\ p # NoTok /\ isinstance(s[p], {"Comparison"})
    THEN [s |-> s, e |-> "IndexError", o |-> 0]
    ELSE IF \/ p = NoTok
            \/ ~isinstance(s[p], {"Function", "WindowFunction", "Comparison"})
            \/ /\ isinstance(s[p], {"Comparison"})
               /\ isinstance(s[At(s, g, 1)], {"Statement"})
    THEN [s |-> insert_before_idx(insert_before_idx(s, g, 1, Leaf("Whitespace", " ")),
                                  g, 0 - 1, Leaf("Whitespace", " ")),
          e |-> "none", o |-> col.v + 2]
    ELSE [s |-> s, e |-> "none", o |-> col.v + 1]

\* with offset(self, indentation_offset): the loop over tlist[1:-1]; r is
\* what the padding returned.
_process_parenthesis_indented(st, g, r) ==
    IF r.e # "none" THEN [st EXCEPT !.e = r.e]
    ELSE offset_exit(
             _process_parenthesis_body(offset_enter([st EXCEPT !.s = r.s], r.o),
                                       SubSeq(r.s[g].tokens, 2, Len(r.s[g].tokens) - 1), 1),
             r.o)

\* SSSplitterFilter._process_parenthesis(tlist)
_process_parenthesis(st, g) ==
    _process_parenthesis_indented(st, g,
        _process_parenthesis_pad(st.s, st.f, g, Parent(st.s, g),
            _get_token_offset(st.s, st.f,
                token_next_by(st.s, g, {}, {M_OPEN("Parenthesis")}, {}, {}, 0 - 1, FALSE).t)))

\* The loop of _process_case over the cases after the first: a newline
\* before each.
RECURSIVE _process_case_loop(_, _, _, _)
_process_case_loop(st, g, cases, k) ==
    IF st.e # "none" \/ k > Len(cases) THEN st
    ELSE LET c == cases[k]
             part == IF c.has_cond THEN c.cond ELSE c.value
         IN IF part = <<>> THEN [st EXCEPT !.e = "IndexError"]
            ELSE _process_case_loop(Stored(st, insert_before(st.s, g, part[1], nl(st.f, 0))),
                                    g, cases, k + 1)

\* with offset(self, self._get_token_offset(first)): the loop; o2 is the
\* offset.
_process_case_breaks(in1, g, cases, o2) ==
    offset_exit(_process_case_loop(offset_enter(in1, o2), g, cases, 2), o2)

\* with offset(self, len("WHEN")): self._process_default(tlist)
_process_case_whens(brk, g) ==
    IF brk.e # "none" THEN brk
    ELSE offset_exit(_process_default(offset_enter(brk, Len("WHEN")), g), Len("WHEN"))

\* The newline before the END at end_idx, when there is one.
_process_case_end(dflt, g, end_idx) ==
    IF dflt.e # "none" \/ end_idx = NoneIdx THEN dflt
    ELSE [dflt EXCEPT !.s = insert_before_idx(dflt.s, g, end_idx, nl(dflt.f, 0))]

\* The search of the END after the default processing.
_process_case_close(dflt, g) ==
    _process_case_end(dflt, g,
        token_next_by(dflt.s, g, {}, {M_CLOSE("Case")}, {}, {}, 0 - 1, FALSE).i)

\* with offset(self, self._get_token_offset(tlist[0])): the body; o1 is
\* the offset and first_ the first leaf of the first condition.
_process_case_body(st, g, cases, o1, first_) ==
    offset_exit(
        _process_case_close(
            _process_case_whens(
                _process_case_breaks(offset_enter(st, o1), g, cases,
                    _get_token_offset(st.s, offset_enter(st, o1).f, first_).v),
                g),
            g),
        o1)

\* The body of _process_case on the cases get_cases returned.
_process_case_cases(st, g, cases) ==
    IF cases = <<>> THEN [st EXCEPT !.e = "StopIteration"]
    ELSE IF ~cases[1].has_cond THEN [st EXCEPT !.e = "TypeError"]
    ELSE IF cases[1].cond = <<>> THEN [st EXCEPT !.e = "IndexError"]
    ELSE _process_case_body(st, g, cases,
                            _get_token_offset(st.s, st.f, At(st.s, g, 0)).v,
                            flatten(st.s, cases[1].cond[1])[1])

\* SSSplitterFilter._process_case(tlist)
_process_case(st, g) == _process_case_cases(st, g, get_cases(st.s, g))

\* with offset(self, self._get_token_offset(tlist[0])):
\*     self._split_kwds(tlist)
_process_conditionslist_split(st, g, o) ==
    offset_exit(_split_kwds(offset_enter(st, o), g), o)

\* SSSplitterFilter._process_conditionslist(tlist)
_process_conditionslist(st, g) ==
    _process_each_sublist(
        IF st.s[g].conditions_count > 2
        THEN _process_conditionslist_split(st, g,
                 _get_token_offset(st.s, st.f, At(st.s, g, 0)).v)
        ELSE st,
        g)

\* _process_clauseidentifierslist with the offset adjusted by plain
\* statements around the call: an exception in flight skips the restore.
_process_clauseidentifierslist_unguarded(st, g, max_id_list_count) ==
    LET id_list == get_identifiers_list(st.s, g)
        o == opening_keyword_length(st.s, g) + 1
        r == IF id_list = NoTok THEN st
             ELSE IF isinstance(st.s[id_list], {"IdentifierList"})
             THEN Called(_process_identifierlist(offset_enter(st, o), id_list,
                                                 max_id_list_count), id_list)
             ELSE _process(offset_enter(st, o), id_list)
    IN IF id_list = NoTok \/ r.e # "none" THEN r ELSE offset_exit(r, o)

\* SSSplitterFilter._process_clauseidentifierslist(tlist, max_id_list_count)
_process_clauseidentifierslist(st, g, max_id_list_count) ==
    LET id_list == get_identifiers_list(st.s, g)
        o == opening_keyword_length(st.s, g) + 1
    IN IF id_list = NoTok THEN st
       ELSE IF isinstance(st.s[id_list], {"IdentifierList"})
       THEN offset_exit(Called(_process_identifierlist(offset_enter(st, o), id_list,
                                                      max_id_list_count), id_list), o)
       ELSE offset_exit(_process(offset_enter(st, o), id_list), o)

_process_selectprojection(st, g) == _process_clauseidentifierslist(st, g, 0)
_process_clausewith(st, g) == _process_clauseidentifierslist(st, g, 0)
_process_clausepartitionby(st, g) == _process_clauseidentifierslist(st, g, 2)
_process_clauseorderby(st, g) == _process_clauseidentifierslist(st, g, 2)
_process_clausegroupby(st, g) == _process_clauseidentifierslist(st, g, 2)

\* The newline at the comma ptoken that follows the tuple token.
_process_values_nl(s, f, g, first_token, token, ptoken) ==
    IF ptoken = NoTok THEN Ok(s)
    ELSE IF f.comma_first
    THEN insert_before(s, g, ptoken, nl(f, _get_token_offset(s, f, first_token).v - 2))
    ELSE insert_after(s, g, ptoken, nl(f, _get_token_offset(s, f, token).v))

\* The loop of _process_values over the tuples: a newline at the comma
\* that follows each.  _process_values_next is the search of the next
\* tuple after tidx.
RECURSIVE _process_values_loop(_, _, _, _)
_process_values_next(st, g, first_token, tidx) ==
    _process_values_loop(st, g, first_token,
        token_next_by(st.s, g, {"Parenthesis"}, {}, {}, {}, tidx, FALSE))

_process_values_loop(st, g, first_token, fnd) ==
    IF st.e # "none" \/ fnd.t = NoTok THEN st
    ELSE _process_values_next(
             Stored(st, _process_values_nl(st.s, st.f, g, first_token, fnd.t,
                            token_next_by(st.s, g, {}, {M("Punctuation", {","})}, {}, {},
                                          fnd.i, FALSE).t)),
             g, first_token, fnd.i)

\* The loop entered with the first tuple.
_process_values_first(st, g, fnd) == _process_values_loop(st, g, fnd.t, fnd)

\* SSSplitterFilter._process_values(tlist)
_process_values(st, g) ==
    _process_values_first([st EXCEPT !.s = insert_before_idx(st.s, g, 0, nl(st.f, 0))], g,
        token_next_by(insert_before_idx(st.s, g, 0, nl(st.f, 0)), g,
                      {"Parenthesis"}, {}, {}, {}, 0 - 1, FALSE))

\* SSSplitterFilter._process_statement(tlist)
_process_statement(st, g) == _process_default_last(_split_sections(st, g), g)

_process_statementunion(st, g) == _process_statement(st, g)
_process_statementinsert(st, g) == _process_statement(st, g)
_process_statementselect(st, g) == _process_statement(st, g)

\* The handler named after the kind of the group, _process_default when
\* there is none.
_process_handler(st, g) ==
    LET cls == st.s[g].cls
    IN CASE cls = "Function" -> _process_function(st, g)
         [] cls = "Parenthesis" -> _process_parenthesis(st, g)
         [] cls = "Case" -> _process_case(st, g)
         [] cls = "ConditionsList" -> _process_conditionslist(st, g)
         [] cls = "IdentifierList" -> _process_identifierlist(st, g, 0)
         [] cls = "SelectProjection" -> _process_selectprojection(st, g)
         [] cls = "ClauseWith" -> _process_clausewith(st, g)
         [] cls = "ClausePartitionBy" -> _process_clausepartitionby(st, g)
         [] cls = "ClauseOrderBy" -> _process_clauseorderby(st, g)
         [] cls = "ClauseGroupBy" -> _process_clausegroupby(st, g)
         [] cls = "Values" -> _process_values(st, g)
         [] cls = "Statement" -> _process_statement(st, g)
         [] cls = "StatementUnion" -> _process_statementunion(st, g)
         [] cls = "StatementInsert" -> _process_statementinsert(st, g)
         [] cls = "StatementSelect" -> _process_statementselect(st, g)
         [] OTHER -> _process_default(st, g)

\* The exception a handler raised is caught and printed.
_process_caught(st, g) ==
    IF st.e = "none" THEN st
    ELSE [st EXCEPT !.e = "none", !.at = NoTok,
                    !.f.printed = Append(@, [e |-> st.e, g |-> g,
                                             at |-> IF st.at = NoTok THEN g ELSE st.at])]

\* SSSplitterFilter._process(tlist)
_process(st, g) == _process_caught(_process_handler(st, g), g)

\* SSSplitterFilter.process(stmt)
process(st, stmt) == _process([st EXCEPT !.f.curr_stmt = stmt], stmt)

\* The configurations the filter is constructed with.
Configs ==
    { ReindentFilter(2, 0, FALSE, FALSE, FALSE),
      ReindentFilter(2, 0, TRUE, FALSE, FALSE),
      ReindentFilter(2, 4, FALSE, FALSE, FALSE),
      ReindentFilter(2, 0, FALSE, TRUE, TRUE) }

(***************************************************************************)
(* The token streams the model groups: every stream of 1..MaxLen tokens    *)
(* over one of the vocabularies below, and the statements of the           *)
(* documented scenarios.                                                   *)
(***************************************************************************)
tLP == Leaf("Punctuation", "(")
tRP == Leaf("Punctuation", ")")
tLB == Leaf("Punctuation", "[")
tRB == Leaf("Punctuation", "]")
tCOMMA == Leaf("Punctuation", ",")
tSEMI == Leaf("Punctuation", ";")
tWS == Leaf("Whitespace", " ")
tSELECT == Leaf("Keyword.DML", "SELECT")
tINSERT == Leaf("Keyword.DML", "INSERT")
tWITH == Leaf("Keyword.CTE", "WITH")
tX == Leaf("Name", "x")
tNUM == Leaf("Number.Integer", "1")
tSTAR == Leaf("Wildcard", "*")
tMINUS == Leaf("Operator", "-")
tEQ == Leaf("Operator.Comparison", "=")
tKW(v) == Leaf("Keyword", v)

Vocabularies ==
    { {tLP, tRP, tSELECT, tX, tKW("AS")},
      {tLP, tRP, tLB, tRB, tKW("CASE"), tKW("END")},
      {tX, tWS, tEQ, tKW("AND"), tKW("NOT")},
      {tSELECT, tX, tCOMMA, tSTAR, tKW("FROM")},
      {tX, tKW("ORDER BY"), tINSERT, tLP, tRP, tSEMI},
      {tX, tNUM, tMINUS, tSTAR, tWS} }

\* The sequences of 1..n elements of a set.
SeqsUpTo(A, n) == UNION {[1..k -> A] : k \in 1..n}

Scenarios ==
    { <<Leaf("Keyword.DML", "select"), tWS, Leaf("Name", "a"), tCOMMA, Leaf("Name", "b"),
        tWS, tKW("from"), tWS, Leaf("Name", "t")>>,
      <<tSELECT, tWS, Leaf("Name", "a"), tWS, tKW("FROM"), tWS, tLP, tSELECT, tWS, tX, tWS, tKW("FROM"),
        tWS, Leaf("Name", "t"), tRP, tWS, Leaf("Name", "sub")>>,
      <<tWITH, tWS, Leaf("Name", "cte"), tWS, tKW("AS"), tWS, tLP, tSELECT, tWS, tNUM, tRP, tWS,
        tSELECT, tWS, tSTAR, tWS, tKW("FROM"), tWS, Leaf("Name", "cte")>> }

\* A parenthesised SELECT whose closing parenthesis group_as takes into the
\* Identifier: the SelectProjection ends up the last child of the
\* Parenthesis.
Swallowed == {<<tLP, tSELECT, tX, tKW("AS"), tRP>>}

\* A parenthesis that holds a list of commas only, before and after a
\* nested parenthesis.
CommaLists ==
    { <<tLP, tCOMMA, tCOMMA, tCOMMA, tLP, tRP, tRP>>,
      <<tLP, tLP, tRP, tCOMMA, tCOMMA, tCOMMA, tRP>> }

\* Nested and sibling parentheses whose flags differ; comments before and
\* after an opening parenthesis.
ParenthesisFlagged ==
    { <<tLP, tKW("AS"), tLP, tSELECT, tRP, tRP, tLP, tSELECT, tRP, tKW("AS"), tLP, tRP>>,
      <<tKW("AS"), Leaf("Comment.Multiline", "/*c*/"), tLP, Leaf("Comment.Multiline", "/*c*/"),
        tSELECT, tRP>>,
      <<tLP, tSELECT, tLP, tRP, tRP, tKW("THEN"), tLP, tX, tRP>> }

\* Calls of a built-in name and of a plain name, in and outside of a
\* CREATE TABLE statement.
tINT == Leaf("Name.Builtin", "int")
Calls ==
    { <<Leaf("Keyword.DDL", "CREATE"), tKW("TABLE"), tX, tLP, tX, tINT, tLP, tNUM, tRP, tRP>>,
      <<Leaf("Keyword.DDL", "CREATE"), tKW("TABLE"), tINT, tLP, tNUM, tRP>>,
      <<tSELECT, tINT, tWS, tLP, tNUM, tRP, tCOMMA, tINT, tLP, tRP>>,
      <<tINT, tX, tLP, tNUM, tRP>>,
      <<tX, tLP, tNUM, tRP>> }

\* AS between a name and a parenthesis, sub-query or not, on either side.
AsOperands ==
    { <<tSELECT, tX, tKW("AS"), tLP, tX, tRP, tCOMMA, tX, tKW("AS"), tLP, tSELECT, tX, tRP>>,
      <<tSELECT, tLP, tX, tRP, tKW("AS"), tX>>,
      <<tSELECT, tLP, tSELECT, tX, tRP, tKW("AS"), tX>>,
      <<tSELECT, tKW("NULL"), tKW("AS"), tX>>,
      <<tSELECT, tX, tKW("AS")>> }

\* Conditions joined by one and by two junctions, a parenthesis on either
\* side.
tWHERE == tKW("WHERE")
Conditions ==
    { <<tWHERE, tX, tKW("AND"), tX, tKW("OR"), tX>>,
      <<tWHERE, tX, tKW("AND"), tX, tKW("AND"), tLP, tX, tRP>>,
      <<tWHERE, tX, tKW("AND"), tLP, tX, tRP, tKW("AND"), tX>>,
      <<tWHERE, tLP, tX, tRP, tKW("OR"), tX, tEQ, tNUM>>,
      <<tWHERE, tX, tKW("AND"), tKW("NOT"), tX>>,
      <<tWHERE, tX, tKW("AND"), tX, tKW("AND"), tKW("NOT"), tLP, tX, tRP>> }

\* Comments before a token, between tokens and at the end of the statement,
\* with and without whitespace around them.
tCM == Leaf("Comment.Multiline", "/*c*/")
Comments ==
    { <<tCM, tWS, tCM, tWS, tX>>,
      <<tX, tWS, tCM>>,
      <<tX, tCM, tWS, tCM>>,
      <<tSELECT, tCM, tX, tWS, tCM, tCM, tSEMI>>,
      <<tLP, tCM, tWS, tRP, tCM, tWS>> }

\* Tokens after a span that starts at a sign, after a list of three
\* identifiers, after a condition that starts with NOT, after an
\* assignment that ends at ';' and after FILTER ( ) OVER ( ).
Collapsed ==
    { <<tNUM, tMINUS, tNUM, tSTAR, tNUM, tCOMMA, tX, tCOMMA, tX, tSEMI>>,
      <<tWHERE, tX, tKW("AND"), tKW("NOT"), tX, tKW("OR"), tX, tSEMI>>,
      <<tSELECT, tX, Leaf("Assignment", ":="), tNUM, tMINUS, tNUM, tSEMI, tX>>,
      <<tSELECT, tINT, tLP, tRP, tKW("FILTER"), tLP, tRP, tKW("OVER"), tLP, tRP, tCOMMA, tX>> }

Inputs == Scenarios \cup Swallowed \cup CommaLists \cup ParenthesisFlagged \cup Calls \cup AsOperands
          \cup Conditions \cup Comments \cup Collapsed
          \cup UNION {SeqsUpTo(V, MaxLen) : V \in Vocabularies}

(***************************************************************************)
(* The state machine: group(stmt) run pass by pass on a statement; then    *)
(* either group run a second time on the tree it returned, or a            *)
(* ReindentFilter constructed and its process run on the tree, twice.      *)
(*   store   the tree                                                      *)
(*   pc      the pass to run next, "done" when group has returned,         *)
(*           "raised" when an exception has escaped it, "diverged" when a  *)
(*           pass does not return, "reindented" and "reindented_again"     *)
(*           after the calls of process                                    *)
(*   err     the exception that escaped the last call, "none" otherwise    *)
(*   round   1 for the first run of group, 2 for the second                *)
(*   first   the tree before the last call (of group again, of process)    *)
(*   nodes0  the statement as given                                        *)
(*   walker  the filter object                                             *)
(*   out     str(stmt) after the first call of process                     *)
(*   fault   the token at which the wrap step of _group fails, NoTok when  *)
(*           group_tokens never fails                                      *)
(*   tlist   the list a step of the splitter was called on, NoTok before   *)
(***************************************************************************)
\* The state before group runs on a statement of inputs, the wrap step
\* failing at a token of faults.
Start(inputs, faults) ==
    /\ \E input \in inputs : store = Statement(input)
    /\ nodes0 = store
    /\ pc = group_passes[1]
    /\ err = "none"
    /\ round = 1
    /\ first = <<>>
    /\ walker = ReindentFilter(2, 0, FALSE, FALSE, FALSE)
    /\ out = ""
    /\ fault \in faults
    /\ tlist = NoTok

Init == Start(Inputs, {NoTok})

\* The pass after q, "done" after the last.
next_pass(q) ==
    LET k == CHOOSE i \in 1..Len(group_passes) : group_passes[i] = q
    IN IF k = Len(group_passes) THEN "done" ELSE group_passes[k + 1]

\* Pass q runs on the statement.
Pass(q) ==
    /\ pc = q
    /\ \E r \in {run_pass(q, store)} :
           /\ store' = r.s
           /\ err' = IF r.e = "diverges" THEN "none" ELSE r.e
           /\ pc' = CASE r.e = "none" -> next_pass(q)
                      [] r.e = "diverges" -> "diverged"
                      [] OTHER -> "raised"
    /\ UNCHANGED <<round, first, nodes0, walker, out, fault, tlist>>

\* group(stmt) is called again on the tree it returned.
GroupAgain ==
    /\ pc = "done"
    /\ round = 1
    /\ round' = 2
    /\ first' = store
    /\ pc' = group_passes[1]
    /\ UNCHANGED <<store, err, nodes0, walker, out, fault, tlist>>

\* ReindentFilter(...).process(stmt) on the tree group returned.
Reindent ==
    /\ pc = "done"
    /\ round = 1
    /\ \E f \in Configs :
           \E st \in {process(Walk(store, f), Root)} :
               /\ store' = st.s
               /\ walker' = st.f
               /\ err' = st.e
               /\ out' = str(st.s, Root)
    /\ first' = store
    /\ pc' = "reindented"
    /\ UNCHANGED <<round, nodes0, fault, tlist>>

\* process(stmt) of the same filter on the tree it returned.
ReindentAgain ==
    /\ pc = "reindented"
    /\ \E st \in {process(Walk(store, walker), Root)} :
           /\ store' = st.s
           /\ walker' = st.f
           /\ err' = st.e
    /\ first' = store
    /\ pc' = "reindented_again"
    /\ UNCHANGED <<round, nodes0, out, fault, tlist>>

Next ==
    \/ \E q \in PassNames : Pass(q)
    \/ GroupAgain
    \/ Reindent
    \/ ReindentAgain

Spec == Init /\ [][Next]_vars

\* The runs in which group_tokens fails unexpectedly in _group, at one
\* token of the statement.
FaultInputs == SeqsUpTo({tX, tCOMMA, tKW("AS")}, FaultLen)
InitFault == Start(FaultInputs, 2..(FaultLen + 1)) /\ fault <= Len(store)
SpecFault == InitFault /\ [][Next]_vars

\* The groups of a tree.
Groups(s) == {t \in 1..Len(s) : is_group(s[t])}

\* The runs in which, once group has returned, one step of the splitter is
\* called on one list of the tree: _split_kwds or _split_sections.
SplitLen == 5
SplitInputs ==
    SeqsUpTo({tX, tKW("AND"), tKW("BETWEEN"), tKW("OR")}, SplitLen)
    \cup { <<tX, tWS, tKW("BETWEEN"), tWS, tNUM, tWS, tKW("AND"), tWS, tNUM, tWS, tKW("AND"), tWS, tX>>,
           <<tSELECT, tX, tKW("FROM"), tX, tKW("JOIN"), tX, tKW("ORDER BY"), tX, tKW("LIMIT"), tNUM>> }
    \cup Scenarios
    \cup { <<tLP, tWITH, tX, tKW("AS"), tLP, tSELECT, tX, tRP, tSELECT, tX, tKW("FROM"), tX, tRP>>,
           <<tLP, tINSERT, tKW("INTO"), tX, tKW("VALUES"), tLP, tNUM, tRP, tSEMI, tRP>>,
           <<tSELECT, tX, tKW("FROM"), tX, tKW("UNION"), tSELECT, tX, tKW("FROM"), tX>>,
           <<tSELECT, tX, tKW("FROM"), tLP, tSELECT, tX, tKW("FROM"), tX, tKW("WHERE"), tX, tRP>> }
InitSplit == Start(SplitInputs, {NoTok})

\* self._split_kwds(tlist) on a list of the tree.
SplitKwds ==
    /\ pc = "done"
    /\ \E g \in Groups(store) :
           \E st \in {_split_kwds(Walk(store, walker), g)} :
               /\ store' = st.s
               /\ walker' = st.f
               /\ err' = st.e
               /\ tlist' = g
    /\ first' = store
    /\ pc' = "split_kwds"
    /\ UNCHANGED <<round, nodes0, out, fault>>

\* self._split_sections(tlist) on a Statement of the tree.
SplitSections ==
    /\ pc = "done"
    /\ \E g \in {t \in Groups(store) : store[t].cls \in StatementKinds} :
           \E st \in {_split_sections(Walk(store, walker), g)} :
               /\ store' = st.s
               /\ walker' = st.f
               /\ err' = st.e
               /\ tlist' = g
    /\ first' = store
    /\ pc' = "split_sections"
    /\ UNCHANGED <<round, nodes0, out, fault>>

NextSplit ==
    \/ \E q \in PassNames : Pass(q)
    \/ SplitKwds
    \/ SplitSections

SpecSplit == InitSplit /\ [][NextSplit]_vars

(***************************************************************************)
(* Properties of grouping.                                                 *)
(***************************************************************************)
\* The groups a pass reaches from g when it does not descend into the kinds
\* of avoid.
RECURSIVE Reach(_, _, _)
Reach(s, g, avoid) ==
    {g} \cup UNION {Reach(s, s[g].tokens[k], avoid) :
                      k \in {j \in 1..NTok(s, g) :
                               /\ is_group(s[s[g].tokens[j]])
                               /\ ~isinstance(s[s[g].tokens[j]], avoid)}}

\* The escaped exceptions that are the documented fatal cases.
FatalErrors ==
    {"SQLParseError:UnbalancedParenthesis", "SQLParseError:SELECT",
     "SQLParseError:WITH", "SQLParseError:INSERT"}

\* The values of the given statement, in order.
InputValues == [k \in 1..(Len(nodes0) - 1) |-> nodes0[k + 1].value]

\* C1: content preservation.  After every pass of group that has returned,
\* in both runs, the in-order flatten of the tree is the given token
\* stream: the same leaves in the same order with the same values, none
\* added or removed.
C1_ContentPreserved ==
    (err = "none" /\ pc \notin {"reindented", "reindented_again"}) =>
        LET f == flatten(store, Root)
        IN /\ f = [k \in 1..(Len(nodes0) - 1) |-> k + 1]
           /\ [k \in 1..Len(f) |-> store[f[k]].value] = InputValues

\* C1 witness: group has returned a tree with a group nested in a group,
\* one of them an Operation.
C1_Witness ==
    /\ pc = "done"
    /\ \E g \in Groups(store) : store[g].cls = "Operation"
    /\ \E g \in Groups(store) \ {Root} : \E k \in 1..NTok(store, g) :
           is_group(store[store[g].tokens[k]])

\* C2 (as claimed): the second run of group leaves the tree the first run
\* returned structurally unchanged.
C2_GroupIdempotent ==
    (round = 2 /\ pc = "done") => Tree(store, Root) = Tree(first, Root)

\* The first and last child of a delimited group match the kind's
\* M_OPEN and M_CLOSE.
Delimited(s, g) ==
    /\ NTok(s, g) >= 2
    /\ match(s[At(s, g, 0)], M_OPEN(s[g].cls))
    /\ match(s[At(s, g, NTok(s, g) - 1)], M_CLOSE(s[g].cls))

DelimitedKinds == {"Parenthesis", "SquareBrackets", "Case", "If", "For", "Begin"}

\* C4 (as claimed): after grouping, every Parenthesis, SquareBrackets, Case,
\* If, For and Begin group begins with its M_OPEN token and ends with its
\* M_CLOSE token.
C4_BalancedGrouping ==
    pc = "done" =>
        \A g \in Groups(store) : store[g].cls \in DelimitedKinds => Delimited(store, g)

\* Child list g holds a close of cls that a stack of the opens before it
\* leaves unmatched: more closes than opens in some prefix.
UnmatchedClose(s, g, cls) ==
    \E k \in 1..NTok(s, g) :
        /\ match(s[s[g].tokens[k]], M_CLOSE(cls))
        /\ Cardinality({j \in 1..k : match(s[s[g].tokens[j]], M_CLOSE(cls))})
           > Cardinality({j \in 1..k : match(s[s[g].tokens[j]], M_OPEN(cls))})

\* C5: group_parenthesis raises the unbalanced-parenthesis error exactly
\* when a child list it scans holds a closing parenthesis with no unmatched
\* opening parenthesis before it; group_brackets, group_case, group_if,
\* group_for and group_begin never raise.
C5_UnbalancedRaises ==
    [][/\ pc = "group_parenthesis" =>
            (err' = "SQLParseError:UnbalancedParenthesis"
             <=> \E g \in Reach(store, Root, {"Parenthesis"}) :
                     UnmatchedClose(store, g, "Parenthesis"))
       /\ pc \in {"group_brackets", "group_case", "group_if", "group_for", "group_begin"}
            => err' = "none"]_vars

\* C5 witness: the statement held an unmatched ']', which group_brackets
\* let pass, and an unmatched ')', on which group_parenthesis has raised.
C5_Witness ==
    /\ pc = "raised"
    /\ err = "SQLParseError:UnbalancedParenthesis"
    /\ UnmatchedClose(nodes0, Root, "SquareBrackets")

\* C6 (as claimed): grouping the statement that is a single '(' raises the
\* unbalanced-parenthesis error.
C6_LoneOpenRaises ==
    (nodes0 = Statement(<<tLP>>) /\ pc \in {"done", "raised"})
        => err = "SQLParseError:UnbalancedParenthesis"

\* C7 (as claimed): group returns or fails with one of the four fatal
\* cases; no other exception escapes it.
C7_OnlyFatalErrorsEscape == err \in FatalErrors \cup {"none"}

\* A token is a target of a SELECT.
SelectTarget(n) == imt(n, {"IdentifierList", "Identifier"}, {}, {"Wildcard"}, {})

\* Child list g holds a SELECT that no target follows.
SelectMissesTarget(s, g) ==
    \E k \in 1..NTok(s, g) :
        /\ match(s[s[g].tokens[k]], M_OPEN("SelectProjection"))
        /\ \A j \in (k + 1)..NTok(s, g) : ~SelectTarget(s[s[g].tokens[j]])

\* Every SELECT keyword is a child of a SelectProjection, and every
\* SelectProjection runs from a SELECT to the first target after it.
SelectsWrapped(s) ==
    \A g \in Groups(s) :
        /\ (\E k \in 1..NTok(s, g) : match(s[s[g].tokens[k]], M_OPEN("SelectProjection")))
               => s[g].cls = "SelectProjection"
        /\ s[g].cls = "SelectProjection" =>
               /\ match(s[At(s, g, 0)], M_OPEN("SelectProjection"))
               /\ \A k \in 2..NTok(s, g) :
                      SelectTarget(s[s[g].tokens[k]]) <=> k = NTok(s, g)

\* C8: group_select_projection raises the invalid-syntax error of SELECT
\* exactly when a child list it scans holds a SELECT keyword that no
\* IdentifierList, Identifier or Wildcard follows in that list; when it
\* returns, every SELECT is wrapped, through the next target, in a
\* SelectProjection.
C8_SelectProjection ==
    [][pc = "group_select_projection" =>
          /\ err' = "SQLParseError:SELECT"
               <=> \E g \in Reach(store, Root, {"SelectProjection"}) :
                       SelectMissesTarget(store, g)
          /\ err' \in {"none", "SQLParseError:SELECT"}
          /\ (err' = "none" /\ round = 1) => SelectsWrapped(store')]_vars

\* C8 witness: the statement is SELECT alone and group_select_projection
\* has raised on it.
C8_Witness ==
    /\ nodes0 = Statement(<<tSELECT>>)
    /\ pc = "raised"
    /\ err = "SQLParseError:SELECT"

\* group g has exactly one Parenthesis child whose is_subQuery is true.
OneSubQueryParenthesis(s, g) ==
    Cardinality({k \in 1..NTok(s, g) :
                    /\ s[s[g].tokens[k]].cls = "Parenthesis"
                    /\ s[s[g].tokens[k]].is_subQuery}) = 1

\* The statement of C9 for every tree group returns, a tree it was given
\* already grouped included.  It does not hold of the second run, which
\* is not idempotent (C2): group_sub_query wraps the children of a
\* SubQuery in a second SubQuery.
C9_SubQueryOneParenthesis_AsClaimed ==
    pc = "done" =>
        \A g \in Groups(store) :
            store[g].cls = "SubQuery" => OneSubQueryParenthesis(store, g)

C3_OnlyWhitespaceInserted ==
    pc \in {"reindented", "reindented_again"} =>
        LET before == flatten(first, Root)
            after == flatten(store, Root)
        IN /\ SelectSeq(after, LAMBDA t : t <= Len(first)) = before
           /\ \A k \in 1..Len(before) :
                  /\ store[before[k]].value = first[before[k]].value
                  /\ store[before[k]].ttype = first[before[k]].ttype
           /\ \A k \in 1..Len(after) :
                  after[k] > Len(first)
                      => store[after[k]].ttype \in {"Whitespace", "Whitespace.Newline"}

\* C3 witness: process has returned a tree with at least two more tokens
\* than it was given.
C3_Witness ==
    /\ pc = "reindented"
    /\ Len(flatten(store, Root)) >= Len(flatten(first, Root)) + 2

\* C10 (as claimed): the second call of process leaves str(stmt) as the
\* first call left it.
C10_ReindentIdempotent ==
    pc = "reindented_again" => str(store, Root) = out

\* Two filters agree on their settings, offset and indent.
SameSetting(a, b) ==
    /\ a.offset = b.offset
    /\ a.indent = b.indent
    /\ a.width = b.width
    /\ a.wrap_after = b.wrap_after
    /\ a.comma_first = b.comma_first
    /\ a.indent_columns = b.indent_columns

C12_CaughtAtItsGroup ==
    pc \in {"reindented", "reindented_again"} =>
        /\ err = "none"
        /\ \A k \in 1..Len(walker.printed) : walker.printed[k].at = walker.printed[k].g

(***************************************************************************)
(* Properties of _group.                                                   *)
(***************************************************************************)
\* The recognizers that are one call of _group; pass "group_" \o p.
JoinRecognizers ==
    {"typecasts", "tzcasts", "period", "as", "assignment", "comparison",
     "conditions_list", "arrays", "operator", "identifier_list",
     "statement_union", "window_function"}

\* The child lists _group(stmt, ...) of recognizer p scans.
JoinLists(s, p) ==
    IF _group_recurse(p) THEN Reach(s, Root, {_group_cls(p)}) ELSE {Root}

\* The first child of g after position k0 the recognizer p matches, None
\* when there is none.
MatchAfter(s, g, p, k0) ==
    LeastIdx({k \in (k0 + 1)..(NTok(s, g) - 1) :
                /\ ~is_whitespace(s[At(s, g, k)])
                /\ _group_match(p, s[At(s, g, k)])})
FirstMatch(s, g, p) == MatchAfter(s, g, p, 0 - 1)

\* The span post returns at the match of p at tidx in g, the previous
\* non-whitespace child being the 'previous' token, when match, valid_prev
\* and valid_next hold there, the span lies in the list around the match
\* and group_tokens does not raise on it; from = None otherwise.
SpanAt(s, g, p, tidx) ==
    LET prev_ == token_prev_d(s, g, tidx)
        next_ == token_next_d(s, g, tidx)
        sp == _group_post(p, s, g, prev_.i, tidx, next_.i)
    IN IF /\ tidx # NoneIdx
          /\ prev_.t # NoTok
          /\ _group_valid_prev(p, s, prev_.t)
          /\ _group_valid_next(p, s, next_.t)
          /\ sp.from # NoneIdx /\ sp.to # NoneIdx
          /\ 0 <= sp.from /\ sp.from <= tidx /\ tidx <= sp.to /\ sp.to < NTok(s, g)
          /\ _group_wrap(s, g, p, sp.from, sp.to).e = "none"
       THEN [from |-> sp.from, to |-> sp.to]
       ELSE [from |-> NoneIdx, to |-> NoneIdx]
FirstSpan(s, g, p) == SpanAt(s, g, p, FirstMatch(s, g, p))

\* The children from..to of g in s are, in s2, one group of kind cls: the
\* children of a new group, or of the first of them extended by the rest.
SpanWrapped(s, s2, g, cls, from, to) ==
    \E w \in Groups(s2) :
        /\ w # g
        /\ s2[w].cls = cls
        /\ \A k \in from..to : At(s, g, k) = w \/ Parent(s2, At(s, g, k)) = w

\* A pass of a recognizer of JoinRecognizers that returned has wrapped the
\* first span of every list it scans that starts at a position of starts.
FirstSpansWrapped(starts) ==
    \A p \in JoinRecognizers :
        (pc = "group_" \o p /\ pc' = next_pass(pc)) =>
            \A g \in JoinLists(store, p) :
                LET sp == FirstSpan(store, g, p)
                IN sp.from \in starts =>
                       SpanWrapped(store, store', g, _group_cls(p), sp.from, sp.to)

\* C13 (as claimed): whenever match, valid_prev and valid_next hold, the
\* span post returns is wrapped by group_tokens, for every position of the
\* left operand in the child list, the first child (from_idx = 0) included.
C13_EverySpanWrapped == [][FirstSpansWrapped(0..(MaxLen + 1))]_vars

\* The same for the spans that do not start at the first child.
C13_LaterSpansWrapped == [][FirstSpansWrapped(1..(MaxLen + 1))]_vars

(***************************************************************************)
(* Properties of _group_matching.                                          *)
(***************************************************************************)
\* The kind each pass of _group_matching groups.
MatchingKind ==
    [group_brackets |-> "SquareBrackets", group_case |-> "Case", group_if |-> "If",
     group_for |-> "For", group_begin |-> "Begin"]

\* The positions (1-based) of the children of g that match the kind's
\* M_OPEN / M_CLOSE, among the positions of S.
OpensIn(s, g, cls, S) == {k \in S : match(s[s[g].tokens[k]], M_OPEN(cls))}
ClosesIn(s, g, cls, S) == {k \in S : match(s[s[g].tokens[k]], M_CLOSE(cls))}

\* The pairing of a stack machine, stated without a stack: the close at j
\* belongs to the open at i when the children between them are balanced,
\* no prefix of them holding more closes than opens.
Paired(s, g, cls, i, j) ==
    /\ i < j
    /\ i \in OpensIn(s, g, cls, {i})
    /\ j \in ClosesIn(s, g, cls, {j})
    /\ Cardinality(OpensIn(s, g, cls, (i + 1)..(j - 1)))
       = Cardinality(ClosesIn(s, g, cls, (i + 1)..(j - 1)))
    /\ \A m \in (i + 1)..(j - 1) :
           Cardinality(ClosesIn(s, g, cls, (i + 1)..m))
           <= Cardinality(OpensIn(s, g, cls, (i + 1)..m))

\* The leaves below the children i..j of g, in order.
RECURSIVE FlattenRange(_, _, _, _)
FlattenRange(s, g, i, j) ==
    IF i > j THEN <<>> ELSE flatten(s, s[g].tokens[i]) \o FlattenRange(s, g, i + 1, j)

\* In s2, w is the group of kind cls over the children i..j of g in s.
GroupOver(s, s2, g, cls, i, j, w) ==
    /\ s2[w].cls = cls
    /\ NTok(s2, w) >= 2
    /\ At(s2, w, 0) = s[g].tokens[i]
    /\ At(s2, w, NTok(s2, w) - 1) = s[g].tokens[j]
    /\ flatten(s2, w) = FlattenRange(s, g, i, j)

\* s2 is s with the child lists _group_matching scans grouped as the stack
\* machine pairs them: one new group per pair and none else, every open or
\* close that has no partner still a child of its list.
StackPairing(s, s2, cls) ==
    LET lists == Reach(s, Root, {cls})
        new == (Len(s) + 1)..Len(s2)
    IN /\ \A g \in lists : \A i, j \in 1..NTok(s, g) :
              Paired(s, g, cls, i, j) => \E w \in new : GroupOver(s, s2, g, cls, i, j, w)
       /\ \A w \in new : \E g \in lists : \E i, j \in 1..NTok(s, g) :
              Paired(s, g, cls, i, j) /\ GroupOver(s, s2, g, cls, i, j, w)
       /\ \A g \in lists : \A k \in 1..NTok(s, g) :
              (/\ k \in OpensIn(s, g, cls, {k}) \cup ClosesIn(s, g, cls, {k})
               /\ \A i \in 1..NTok(s, g) :
                      ~Paired(s, g, cls, i, k) /\ ~Paired(s, g, cls, k, i))
                  => Parent(s2, s[g].tokens[k]) = g

\* C14: group_brackets, group_case, group_if, group_for and group_begin
\* leave exactly the pairing of a stack machine: each close is wrapped with
\* the nearest unmatched open before it, inner pairs inside outer ones; a
\* close with no open before it and an open that is never closed stay
\* children of their list, and the pairs after them are still grouped.
C14_StackPairing ==
    [][\A q \in DOMAIN MatchingKind :
           pc = q => pc' = next_pass(q) /\ StackPairing(store, store', MatchingKind[q])]_vars

\* C14 witness: group_brackets has returned; the statement keeps a '[' or
\* a ']' that has no partner next to a SquareBrackets group it has formed.
C14_Witness ==
    /\ pc = "group_parenthesis"
    /\ \E k, m \in 1..NTok(store, Root) :
           /\ store[store[Root].tokens[k]].cls = "SquareBrackets"
           /\ k < m
           /\ match(store[store[Root].tokens[m]], M_OPEN("SquareBrackets"))
    /\ \E k, m \in 1..NTok(store, Root) :
           /\ store[store[Root].tokens[k]].cls = "SquareBrackets"
           /\ m < k
           /\ match(store[store[Root].tokens[m]], M_CLOSE("SquareBrackets"))

\* The wrap step fails at the first match of p in g: the child is `fault`
\* and its span, which does not start at the first child, goes to
\* group_tokens.
FailedWrap(s, g, p) ==
    /\ fault # NoTok
    /\ FirstMatch(s, g, p) # NoneIdx
    /\ At(s, g, FirstMatch(s, g, p)) = fault
    /\ FirstSpan(s, g, p).from >= 1

\* What a pass of recognizer p leaves of list g when the wrap failed at its
\* first match: the span of that match is no group; the next match is
\* paired with the nearest non-whitespace child before it, the failed
\* token itself when it is that child, and its span, at the positions of
\* the list as it was, is a group.
ScanWentOn(s, s2, g, p) ==
    LET sp == FirstSpan(s, g, p)
        nx == SpanAt(s, g, p, MatchAfter(s, g, p, FirstMatch(s, g, p)))
    IN /\ ~SpanWrapped(s, s2, g, _group_cls(p), sp.from, sp.to)
       /\ nx.from >= 1 => SpanWrapped(s, s2, g, _group_cls(p), nx.from, nx.to)

\* C15: when group_tokens raises in _group the exception is swallowed: the
\* pass returns and the next pass runs, the span is not wrapped, the offset
\* is not advanced and the token becomes the 'previous' one, so that the
\* spans of the following children are still wrapped where they are.
C15_FailedWrapSwallowed ==
    [][\A p \in JoinRecognizers :
           pc = "group_" \o p =>
               \A g \in JoinLists(store, p) :
                   FailedWrap(store, g, p) =>
                       /\ pc' = next_pass(pc)
                       /\ err' = "none"
                       /\ ScanWentOn(store, store', g, p)]_vars

\* C15 witness: group_identifier_list has returned; the wrap at a comma
\* failed, as the valid operand before it is still outside, and that comma
\* is the first child of the IdentifierList of the comma after it, of
\* which it was the 'previous' token.
C15_Witness ==
    /\ pc = "group_clause_partition_by"
    /\ round = 1
    /\ fault # NoTok
    /\ group_identifier_list_match(store[fault])
    /\ Parent(store, fault) # Root
    /\ store[Parent(store, fault)].cls = "IdentifierList"
    /\ At(store, Parent(store, fault), 0) = fault
    /\ LET list == Parent(store, fault)
           g == Parent(store, list)
           prev_ == token_prev_d(store, g, token_index(store, g, list))
       IN /\ prev_.i >= 1
          /\ group_identifier_list_valid(store, prev_.t)

(***************************************************************************)
(* Properties of single passes.                                            *)
(***************************************************************************)
\* The flags of the Parenthesis w say what stands in and before it: the
\* first child after '(' that is neither whitespace nor comment is the DML
\* keyword SELECT; the nearest non-whitespace sibling before w is the
\* keyword THEN or AS.
FlagsAsPlaced(s, w) ==
    LET g == Parent(s, w)
        inside == {k \in 1..(NTok(s, w) - 1) :
                     ~is_whitespace(s[At(s, w, k)]) /\ ~is_comment(s[At(s, w, k)])}
        before == {k \in 0..(token_index(s, g, w) - 1) : ~is_whitespace(s[At(s, g, k)])}
    IN /\ s[w].is_subQuery
          <=> /\ inside # {}
              /\ match(s[At(s, w, LeastIdx(inside))], M("Keyword.DML", {"SELECT"}))
       /\ s[w].is_codeBlockDelimiter
          <=> /\ before # {}
              /\ match(s[At(s, g, GreatestIdx(before))], M("Keyword", {"THEN", "AS"}))

\* C16: after group_parenthesis every Parenthesis it has formed has
\* is_subQuery exactly when its first child after '(' that is neither
\* whitespace nor comment is the DML keyword SELECT, and
\* is_codeBlockDelimiter exactly when the nearest non-whitespace token
\* before it in its parent is a THEN or AS keyword; nested and sibling
\* parentheses each carry their own flags.
C16_ParenthesisFlags ==
    [][(pc = "group_parenthesis" /\ pc' = next_pass(pc)) =>
           \A w \in (Len(store) + 1)..Len(store') :
               store'[w].cls = "Parenthesis" /\ FlagsAsPlaced(store', w)]_vars

\* C16 witness: group_parenthesis has returned a Parenthesis with both
\* flags set that is nested in, or a sibling of, a Parenthesis with no
\* flag set.
C16_Witness ==
    /\ pc = "group_case"
    /\ round = 1
    /\ \E v, w \in Groups(store) :
           /\ store[v].cls = "Parenthesis" /\ store[w].cls = "Parenthesis"
           /\ store[w].is_subQuery /\ store[w].is_codeBlockDelimiter
           /\ ~store[v].is_subQuery /\ ~store[v].is_codeBlockDelimiter
           /\ Parent(store, w) = v
    /\ \E v, w \in Groups(store) :
           /\ store[v].cls = "Parenthesis" /\ store[w].cls = "Parenthesis"
           /\ store[v].is_subQuery # store[w].is_subQuery
           /\ store[v].is_codeBlockDelimiter # store[w].is_codeBlockDelimiter
           /\ Parent(store, w) = Parent(store, v)

\* The statement holds a token CREATE and a token TABLE.
CreatesTable(s) ==
    LET leaves == flatten(s, Root)
    IN /\ \E k \in 1..Len(leaves) : normalized(s[leaves[k]]) = "CREATE"
       /\ \E k \in 1..Len(leaves) : normalized(s[leaves[k]]) = "TABLE"

\* The group w starts with a Name.Builtin token that a Parenthesis
\* follows, whitespace skipped.
BuiltinCall(s, w) ==
    LET after == {k \in 1..(NTok(s, w) - 1) : ~is_whitespace(s[At(s, w, k)])}
    IN /\ NTok(s, w) >= 2
       /\ s[At(s, w, 0)].ttype = "Name.Builtin"
       /\ after # {}
       /\ s[At(s, w, LeastIdx(after))].cls = "Parenthesis"

\* C17 (as claimed): in a statement that holds both CREATE and TABLE
\* group_functions forms no Function anywhere in the tree, nested groups
\* included; in any other statement every Function it forms starts with a
\* Name.Builtin token directly followed, whitespace skipped, by a
\* Parenthesis.
C17_FunctionsSuppressed ==
    [][(pc = "group_functions" /\ pc' = next_pass(pc)) =>
           \A w \in (Len(store) + 1)..Len(store') :
               /\ ~CreatesTable(store)
               /\ store'[w].cls = "Function" => BuiltinCall(store', w)]_vars

\* The step of group_as has grouped the first AS of list g.
FirstAsGrouped(s, s2, g) ==
    /\ FirstMatch(s, g, "as") # NoneIdx
    /\ Parent(s2, At(s, g, FirstMatch(s, g, "as"))) # g

\* The condition on the neighbours of the first AS of g; subqry is the
\* value of is_subQuery with which a Parenthesis is no operand after AS,
\* rejected says whether a Parenthesis with is_subQuery false is none
\* before it.
AsOperandsValid(s, g, subqry, rejected) ==
    LET tidx == FirstMatch(s, g, "as")
        prev_ == token_prev_d(s, g, tidx).t
        next_ == token_next_d(s, g, tidx).t
    IN /\ prev_ # NoTok
       /\ normalized(s[prev_]) = "NULL" \/ ~is_keyword(s[prev_])
       /\ ~(rejected /\ s[prev_].cls = "Parenthesis" /\ ~s[prev_].is_subQuery)
       /\ next_ # NoTok
       /\ s[next_].ttype \notin {"Keyword.DML", "Keyword.DDL", "Keyword.CTE"}
       /\ ~(s[next_].cls = "Parenthesis" /\ s[next_].is_subQuery = subqry)

\* C18 (as claimed): group_as wraps 'expr AS alias' only when the token
\* before AS is not a keyword other than NULL and not a Parenthesis with
\* is_subQuery false, and the token after AS exists, is not DML/DDL/CTE
\* typed and not a Parenthesis with is_subQuery false; in every other case
\* the AS is left ungrouped.
C18_AsOperands_AsClaimed ==
    [][(pc = "group_as" /\ pc' = next_pass(pc)) =>
           \A g \in JoinLists(store, "as") :
               FirstAsGrouped(store, store', g) => AsOperandsValid(store, g, FALSE, TRUE)]_vars

\* C18 (amended): group_as wraps 'expr AS alias' only when the token before
\* AS is not a keyword other than NULL, a Parenthesis of either kind being
\* accepted, and the token after AS exists, is not DML/DDL/CTE typed and is
\* not a Parenthesis with is_subQuery true; in every other case the AS is
\* left ungrouped.
C18_AsOperands ==
    [][(pc = "group_as" /\ pc' = next_pass(pc)) =>
           \A g \in JoinLists(store, "as") :
               FirstAsGrouped(store, store', g) => AsOperandsValid(store, g, TRUE, FALSE)]_vars

\* C18 witness: group_as has returned; one AS is in an Identifier with the
\* Parenthesis that follows it, which is no sub-query, and another AS, which
\* a sub-query Parenthesis follows, is still a child of its list.
C18_Witness ==
    /\ pc = "group_sub_query"
    /\ round = 1
    /\ \E w \in Groups(store) : \E k \in 1..NTok(store, w) :
           /\ store[w].cls = "Identifier"
           /\ group_as_match(store[At(store, w, k - 1)])
           /\ token_next_d(store, w, k - 1).t # NoTok
           /\ store[token_next_d(store, w, k - 1).t].cls = "Parenthesis"
           /\ ~store[token_next_d(store, w, k - 1).t].is_subQuery
    /\ \E g \in Groups(store) : \E k \in 1..NTok(store, g) :
           /\ store[g].cls # "Identifier"
           /\ group_as_match(store[At(store, g, k - 1)])
           /\ token_prev_d(store, g, k - 1).i >= 1
           /\ store[token_prev_d(store, g, k - 1).t].cls = "Identifier"
           /\ token_next_d(store, g, k - 1).t # NoTok
           /\ store[token_next_d(store, g, k - 1).t].cls = "Parenthesis"
           /\ store[token_next_d(store, g, k - 1).t].is_subQuery

\* The first '-' of the operators of list g: its position, None when g
\* holds no operator or another operator comes first.
FirstMinus(s, g) ==
    LET ops == {k \in 0..(NTok(s, g) - 1) : s[At(s, g, k)].ttype = "Operator"}
    IN IF ops # {} /\ s[At(s, g, LeastIdx(ops))].value = "-" THEN LeastIdx(ops) ELSE NoneIdx

\* The neighbours of the child at tidx make it a sign: an Identifier after
\* it, whitespace skipped, and no Identifier before it.
IsSign(s, g, tidx) ==
    LET n_token == token_next_d(s, g, tidx).t
        p_token == token_next(s, g, tidx, TRUE, TRUE, TRUE).t
    IN /\ n_token # NoTok
       /\ s[n_token].cls = "Identifier"
       /\ p_token = NoTok \/ s[p_token].cls # "Identifier"

\* A step of group_signed_identifier has wrapped the first '-' of every
\* list it scans, when that '-' is at a position of at and its left
\* neighbour is absent or at a position of left, into a SignedIdentifier
\* with its right neighbour exactly when its neighbours make it a sign.
SignsWrapped(at, left) ==
    (pc = "group_signed_identifier" /\ pc' = next_pass(pc)) =>
        \A g \in Reach(store, Root, {"SignedIdentifier"}) :
            LET tidx == FirstMinus(store, g)
                pidx == token_next(store, g, tidx, TRUE, TRUE, TRUE).i
                nidx == token_next_d(store, g, tidx).i
            IN (tidx \in at /\ pidx \in left \cup {NoneIdx}) =>
                   (IsSign(store, g, tidx)
                    <=> /\ nidx # NoneIdx
                        /\ SpanWrapped(store, store', g, "SignedIdentifier", tidx, nidx))

\* C19 (as claimed): group_signed_identifier wraps a '-' and its right
\* neighbour into a SignedIdentifier exactly when the right neighbour,
\* whitespace skipped, is an Identifier and the left neighbour is absent or
\* no Identifier, at every position: the '-' that is the first child and
\* the '-' whose left neighbour is the first child included.
C19_SignedIdentifier == [][SignsWrapped(0..(MaxLen + 1), 0..(MaxLen + 1))]_vars

\* The same for a '-' that is not the first child and whose left neighbour
\* is not the first child.
C19_LaterSigns == [][SignsWrapped(1..(MaxLen + 1), 1..(MaxLen + 1))]_vars

\* The weight of the child at position k of the ConditionsList w: 0 when
\* it is no AND/OR junction, 2 when the condition to its right, NOT and
\* comments skipped, is a Parenthesis, and 1 otherwise.
JunctionWeight(s, w, k) ==
    LET right == {j \in (k + 1)..(NTok(s, w) - 1) :
                    /\ ~is_whitespace(s[At(s, w, j)])
                    /\ ~is_comment(s[At(s, w, j)])
                    /\ ~match(s[At(s, w, j)], M("Keyword", {"NOT"}))}
    IN IF ~group_conditions_list_match(s[At(s, w, k)]) THEN 0
       ELSE IF right # {} /\ s[At(s, w, LeastIdx(right))].cls = "Parenthesis" THEN 2
       ELSE 1

\* The weights of the children of w from position k on that are not in old.
RECURSIVE AbsorbedWeight(_, _, _, _)
AbsorbedWeight(s, w, old, k) ==
    IF k >= NTok(s, w) THEN 0
    ELSE (IF At(s, w, k) \in old THEN 0 ELSE JunctionWeight(s, w, k))
         + AbsorbedWeight(s, w, old, k + 1)

\* The children of node w of s, none when s has no node w.
ChildrenOf(s, w) == IF w > Len(s) THEN {} ELSE {s[w].tokens[k] : k \in 1..Len(s[w].tokens)}

\* A step of group_conditions_list that returns has raised the
\* conditions_count of every ConditionsList whose first junction is of
\* firsts by the weights of the junctions it has absorbed, from 0 for a
\* list it has formed.
JunctionsCounted(firsts) ==
    (pc = "group_conditions_list" /\ pc' = next_pass(pc)) =>
        \A w \in Groups(store') :
            (/\ store'[w].cls = "ConditionsList"
             /\ \A k \in 0..(NTok(store', w) - 1) :
                    (/\ JunctionWeight(store', w, k) # 0
                     /\ \A j \in 0..(k - 1) : JunctionWeight(store', w, j) = 0)
                        => JunctionWeight(store', w, k) \in firsts)
                => store'[w].conditions_count
                   = (IF w > Len(store) THEN 0 ELSE store[w].conditions_count)
                     + AbsorbedWeight(store', w, ChildrenOf(store, w), 0)

\* C20 (as claimed): conditions_count grows by 1 for every AND/OR junction
\* absorbed into a ConditionsList and by 2 when the right neighbour of the
\* junction is a Parenthesis, for the first junction, which creates the
\* list, as for the later ones; a junction that is not absorbed leaves it
\* unchanged.
C20_JunctionsCounted == [][JunctionsCounted({1, 2})]_vars

\* The same for the lists whose first junction has no Parenthesis to its
\* right.
C20_LaterJunctionsCounted == [][JunctionsCounted({1})]_vars

\* The maximal runs of comment tokens of list g, the whitespace between
\* them included: the positions of the first and of the last comment.
CommentRuns(s, g) ==
    LET n == NTok(s, g)
        cm(k) == TypeIn(s[At(s, g, k)].ttype, "Comment")
        ws(k) == is_whitespace(s[At(s, g, k)])
    IN {r \in (0..(n - 1)) \X (0..(n - 1)) :
          /\ r[1] <= r[2] /\ cm(r[1]) /\ cm(r[2])
          /\ \A k \in r[1]..r[2] : cm(k) \/ ws(k)
          /\ ~\E k \in 0..(r[1] - 1) : cm(k) /\ \A j \in (k + 1)..(r[1] - 1) : ws(j)
          /\ ~\E k \in (r[2] + 1)..(n - 1) : cm(k) /\ \A j \in (r[2] + 1)..(k - 1) : ws(j)}

\* The whitespace that follows the child at position b of g, up to the
\* next child that is none: the position of the last of it, b when none
\* follows.
TrailingWhitespace(s, g, b) ==
    GreatestIdx({k \in b..(NTok(s, g) - 1) :
                   \A j \in (b + 1)..k : is_whitespace(s[At(s, g, j)])})

\* A step of group_comments has made one new Comment group of the children
\* from..to of g.
CommentGroup(g, from, to) ==
    \E w \in (Len(store) + 1)..Len(store') :
        /\ store'[w].cls = "Comment"
        /\ Parent(store', w) = g
        /\ store'[w].tokens = SubSeq(store[g].tokens, from + 1, to + 1)

\* C21 (as claimed): group_comments collapses every maximal run of comment
\* tokens of a child list, with the whitespace between them, into one
\* Comment group that holds the comments and the whitespace interior to the
\* run only, a run that reaches the end of the child list included.
C21_CommentRunsCollapsed ==
    [][(pc = "group_comments" /\ pc' = next_pass(pc)) =>
           \A g \in Reach(store, Root, {"Comment"}) :
               \A r \in CommentRuns(store, g) : CommentGroup(g, r[1], r[2])]_vars

\* What the pass does: a run that another child follows, whitespace
\* skipped, is one Comment group together with the whitespace up to that
\* child; a run that nothing but whitespace follows stays as it is.
C21_FollowedRunsCollapsed ==
    [][(pc = "group_comments" /\ pc' = next_pass(pc)) =>
           \A g \in Reach(store, Root, {"Comment"}) :
               \A r \in CommentRuns(store, g) :
                   LET last == TrailingWhitespace(store, g, r[2])
                   IN IF last < NTok(store, g) - 1
                      THEN CommentGroup(g, r[1], last)
                      ELSE \A k \in r[1]..r[2] : Parent(store', At(store, g, k)) = g]_vars

(***************************************************************************)
(* Properties of the steps of the splitter.                                *)
(***************************************************************************)
\* The positions of the split keywords among the children of g.
SplitKeywords(s, g) ==
    {k \in 0..(NTok(s, g) - 1) : match(s[At(s, g, k)], M("Keyword", split_words))}

\* The child at position k of tlist before the step has, after it, a new
\* newline token immediately before it.
Newlined(k) ==
    LET i == token_index(store, tlist, At(first, tlist, k))
    IN /\ i >= 1
       /\ At(store, tlist, i - 1) > Len(first)
       /\ store[At(store, tlist, i - 1)] = nl(walker, 0)

\* The child at position k of tlist before the step has, after it, the
\* neighbour to its left that it had.
NotNewlined(k) ==
    LET i == token_index(store, tlist, At(first, tlist, k))
    IN IF k = 0 THEN i = 0
       ELSE i >= 1 /\ At(store, tlist, i - 1) = At(first, tlist, k - 1)

\* The child at position k of g is an AND that a BETWEEN precedes with no
\* other AND between the two.
NextAndAfterBetween(s, g, k) ==
    /\ normalized(s[At(s, g, k)]) = "AND"
    /\ \E b \in SplitKeywords(s, g) :
           /\ b < k
           /\ normalized(s[At(s, g, b)]) = "BETWEEN"
           /\ \A j \in SplitKeywords(s, g) :
                  (b < j /\ j < k) => normalized(s[At(s, g, j)]) # "AND"

\* C22 (as claimed): _split_kwds inserts a newline immediately before each
\* direct-child keyword of the split set, BETWEEN included; only the next
\* AND after a BETWEEN receives none.
C22_SplitKwds_AsClaimed ==
    (pc = "split_kwds" /\ err = "none") =>
        \A k \in SplitKeywords(first, tlist) :
            IF NextAndAfterBetween(first, tlist, k) THEN NotNewlined(k) ELSE Newlined(k)

\* The BETWEENs not yet closed by an AND before the child at position k of
\* g: a BETWEEN opens one, the AND that is the next split keyword closes
\* the last, any other split keyword drops them all.
RECURSIVE PendingBetween(_, _, _)
PendingBetween(s, g, k) ==
    IF k = 0 THEN 0
    ELSE LET d == PendingBetween(s, g, k - 1)
             t == s[At(s, g, k - 1)]
         IN IF ~match(t, M("Keyword", split_words)) THEN d
            ELSE IF normalized(t) = "BETWEEN" THEN d + 1
            ELSE IF normalized(t) = "AND" /\ d > 0 THEN d - 1
            ELSE 0

\* The split keywords that receive no newline: BETWEEN, and the AND that
\* closes one.
Unsplit(s, g, k) ==
    \/ normalized(s[At(s, g, k)]) = "BETWEEN"
    \/ normalized(s[At(s, g, k)]) = "AND" /\ PendingBetween(s, g, k) > 0

\* C22 (amended): _split_kwds inserts a newline immediately before each
\* direct-child keyword of the split set but BETWEEN itself and the AND
\* that closes a BETWEEN (the next split keyword after it, BETWEEN ... AND
\* pairs between the two set aside), which keep their left neighbour;
\* every other AND is split.
C22_SplitKwds ==
    (pc = "split_kwds" /\ err = "none") =>
        \A k \in SplitKeywords(first, tlist) :
            IF Unsplit(first, tlist, k) THEN NotNewlined(k) ELSE Newlined(k)

\* _split_kwds has run on a list with a BETWEEN, the AND that closes it
\* and a later AND: the first AND has kept its neighbour, the later one has
\* a newline before it.
C22_Witness ==
    /\ pc = "split_kwds" /\ err = "none"
    /\ \E b, a1, a2 \in SplitKeywords(first, tlist) :
           /\ b < a1 /\ a1 < a2
           /\ normalized(first[At(first, tlist, b)]) = "BETWEEN"
           /\ normalized(first[At(first, tlist, a1)]) = "AND"
           /\ normalized(first[At(first, tlist, a2)]) = "AND"
           /\ PendingBetween(first, tlist, a1) > 0
           /\ NotNewlined(a1) /\ NotNewlined(b) /\ Newlined(a2)

\* The positions of the sections among the children of g.
SectionPositions(s, g) == {k \in 0..(NTok(s, g) - 1) : s[At(s, g, k)].cls \in SectionKinds}

\* The step has inserted one token for each position of marked, and no
\* other.
InsertedOnlyAt(marked) ==
    /\ Len(store) = Len(first) + Cardinality(marked)
    /\ NTok(store, tlist) = NTok(first, tlist) + Cardinality(marked)

\* C23 (as claimed): for every Statement-kind group, top-level or nested,
\* whatever the kind of its first section, _split_sections inserts exactly
\* one newline before each section except the first, and none before the
\* first.
C23_SplitSections_AsClaimed ==
    (pc = "split_sections" /\ err = "none") =>
        LET secs == SectionPositions(first, tlist)
            rest == secs \ {LeastIdx(secs)}
        IN /\ \A k \in secs : IF k \in rest THEN Newlined(k) ELSE NotNewlined(k)
           /\ InsertedOnlyAt(rest)

\* The first section of g is popped from the sections to split: g is the
\* root or a child of the root, or the first section is a SelectProjection
\* or a StatementSelect.
FirstSectionKept(s, g) ==
    LET secs == SectionPositions(s, g)
    IN \/ Parent(s, g) = NoTok
       \/ Parent(s, Parent(s, g)) = NoTok
       \/ isinstance(s[At(s, g, LeastIdx(secs))], {"SelectProjection", "StatementSelect"})

\* C23 (amended): for every Statement-kind group _split_sections inserts
\* exactly one newline before each section except the first; the first
\* receives none when the group is the root or a child of the root or the
\* first section is a SelectProjection or a StatementSelect, and receives
\* one as well in a statement nested deeper whose first section is of
\* another kind.
C23_SplitSections ==
    (pc = "split_sections" /\ err = "none") =>
        LET secs == SectionPositions(first, tlist)
            split == IF secs # {} /\ FirstSectionKept(first, tlist)
                     THEN secs \ {LeastIdx(secs)} ELSE secs
        IN /\ \A k \in secs : IF k \in split THEN Newlined(k) ELSE NotNewlined(k)
           /\ InsertedOnlyAt(split)

\* _split_sections has run on a statement nested below a child of the root
\* that has two sections or more, the first a clause: every section has a
\* newline before it.
C23_Witness ==
    /\ pc = "split_sections" /\ err = "none"
    /\ Cardinality(SectionPositions(first, tlist)) >= 2
    /\ ~FirstSectionKept(first, tlist)
    /\ \A k \in SectionPositions(first, tlist) : Newlined(k)

\* C24: in every scan of _group the index tidx = idx - tidx_offset of a
\* step that is not skipped is the position of the token of the snapshot
\* in the live child list, after any number of collapses of the same scan,
\* and tidx is never negative: no list of the tree has lost its index.
C24_IndexTracked == \A g \in Groups(store) : ~store[g].index_lost

\* A scan has collapsed a span that post made start at the sign before the
\* left operand, a later scan of the same list has made an IdentifierList
\* of it and absorbed a third identifier into the list (extend), and each
\* scan has gone on to the tokens that follow.
C24_Witness ==
    \E g \in Groups(store) :
        \E k \in 1..(NTok(store, g) - 2) :
            LET l == At(store, g, k)
            IN /\ store[l].cls = "IdentifierList"
               /\ NTok(store, l) >= 5
               /\ store[At(store, l, 0)].cls = "Operation"
               /\ match(store[At(store, At(store, l, 0), 0)], M("Operator", {"-", "+"}))
               /\ ~is_whitespace(store[At(store, g, k + 1)])
               /\ ~store[g].index_lost

\* The tokens of the given statement whose lexical type is no longer the
\* one they were given with.
Retyped == {t \in 2..Len(nodes0) : store[t].ttype # nodes0[t].ttype}

\* C25 (as claimed): grouping changes the lexical type of a token only for
\* the operator or wildcard that becomes the operator of an Operation: a
\* token whose type has changed is an Operator now, was an operator or a
\* wildcard, and is a child of an Operation; when no Operation is made for
\* it, its type is the one it had.
C25_RetypedInOperation ==
    \A t \in Retyped :
        /\ store[t].ttype = "Operator"
        /\ group_operator_match(nodes0[t])
        /\ store[Parent(store, t)].cls = "Operation"

\* What holds: only operators and wildcards change their type, and only
\* to Operator.
C25_OnlyOperatorsRetyped ==
    \A t \in Retyped : store[t].ttype = "Operator" /\ group_operator_match(nodes0[t])

\* The tokens group_operator retypes and leaves outside of an Operation
\* are those whose span starts at the first child of their list, at the
\* left operand or at its sign: the spans that "if from_idx" drops (C13).
C25_RetypedAtFirstChild ==
    [][(pc = "group_operator" /\ pc' = next_pass(pc)) =>
           \A t \in 2..Len(nodes0) :
               (store'[t].ttype # store[t].ttype
                /\ store'[Parent(store', t)].cls # "Operation") =>
                   LET g == Parent(store', t)
                       left == token_prev_d(store', g, token_index(store', g, t))
                       sign == token_prev_d(store', g, left.i)
                   IN \/ left.i = 0
                      \/ sign.i = 0 /\ match(store'[sign.t], M("Operator", {"-", "+"}))]_vars

\* The tokens the step has added to the tree.
Inserted == (Len(first) + 1)..Len(store)

\* When _split_kwds has returned, every token it has inserted is a newline,
\* a child of the list that no split pattern matches, immediately followed
\* by a split keyword the list had at the start: no keyword has two
\* newlines before it, and the newlines inserted are at most as many as
\* the split keywords that were direct children at the start.
OneNewlinePerKeyword ==
    (pc = "split_kwds" /\ err = "none") =>
        /\ Cardinality(Inserted) <= Cardinality(SplitKeywords(first, tlist))
        /\ NTok(store, tlist) = NTok(first, tlist) + Cardinality(Inserted)
        /\ \A n \in Inserted :
               LET i == token_index(store, tlist, n)
               IN /\ store[n] = nl(walker, 0)
                  /\ ~match(store[n], M("Keyword", split_words))
                  /\ i # NoneIdx /\ i + 1 < NTok(store, tlist)
                  /\ At(store, tlist, i + 1) <= Len(first)
                  /\ \E k \in SplitKeywords(first, tlist) :
                         At(first, tlist, k) = At(store, tlist, i + 1)

\* The iterations of the loop of _split_kwds on tlist, by the keyword each
\* handled, are bounded by the list: each handles a split keyword the list
\* had at the start, never a token the loop inserted, and a keyword further
\* right than the one before, so that none is handled twice.
IterationsBounded ==
    (pc = "split_kwds" /\ err = "none") =>
        /\ Len(walker.split) = Cardinality(Inserted)
        /\ \A k \in 1..Len(walker.split) :
               /\ walker.split[k].g = tlist
               /\ \E i \in SplitKeywords(first, tlist) :
                      At(first, tlist, i) = walker.split[k].t
               /\ k > 1 => token_index(first, tlist, walker.split[k - 1].t)
                           < token_index(first, tlist, walker.split[k].t)

\* C26: _split_kwds terminates on every list of the tree group returns:
\* each iteration of its loop inserts one newline and goes on strictly
\* after the keyword it handled, no keyword is handled twice, no inserted
\* newline is matched, and the newlines inserted are at most as many as
\* the split keywords that were direct children at the start.
C26_SplitKwdsTerminates == IterationsBounded /\ OneNewlinePerKeyword

\* _split_kwds has returned from a list with three split keywords or more,
\* one of them a BETWEEN, with two newlines or more inserted, fewer than
\* the keywords.
C26_Witness ==
    /\ pc = "split_kwds" /\ err = "none"
    /\ Cardinality(SplitKeywords(first, tlist)) >= 3
    /\ Cardinality(Inserted) >= 2
    /\ Cardinality(Inserted) < Cardinality(SplitKeywords(first, tlist))

=============================================================================
